---- MODULE Spec2Model ----
(***************************************************************************)
(* Model of the forensic-service analysis handlers.                        *)
(*                                                                         *)
(* Numbers.  Probabilities and scores are integers in thousandths          *)
(* (0.45 is 450), entropy is in thousandths of a bit (6.0 is 6000),        *)
(* variance and byte values are plain integers.  A JavaScript number that  *)
(* can be NaN is a record [nan, v].                                        *)
(*                                                                         *)
(* Strings.  A classifier label is the sequence of its characters, so that *)
(* lower-casing and substring search are computed.  A detection method is  *)
(* the sequence of the string parts the handler concatenates.              *)
(***************************************************************************)
EXTENDS Integers, Sequences, FiniteSets, TLC

VARIABLES service, hfKey, workerSecret, pc, req, buffer, metadata,
          hasCamera, results, cascade, response, qResponse, qScore

vars == <<service, hfKey, workerSecret, pc, req, buffer, metadata,
          hasCamera, results, cascade, response, qResponse, qScore>>

\* ------------------------------------------------------------------------
\* Bounds of the model
\* ------------------------------------------------------------------------
\* number of configured classifiers that are queried (prefix of MODELS)
NumModels == 2
\* longest input buffer that is enumerated byte by byte
MaxLen == 2

\* ------------------------------------------------------------------------
\* JavaScript numbers and helpers
\* ------------------------------------------------------------------------
Num(x) == [nan |-> FALSE, v |-> x]
NaN == [nan |-> TRUE, v |-> 0]

\* a / b on non-negative numbers, scaled by k: 0/0 is NaN (x/0 with x > 0
\* would be Infinity; no caller divides a positive number by zero)
Div(a, b, k) == IF b = 0 THEN NaN ELSE Num((a * k) \div b)

\* x < c and x > c are false when x is NaN
Lt(x, c) == ~x.nan /\ x.v < c
Gt(x, c) == ~x.nan /\ x.v > c

Max2(a, b) == IF a >= b THEN a ELSE b
Min2(a, b) == IF a <= b THEN a ELSE b
Abs(a) == IF a < 0 THEN 0 - a ELSE a

RECURSIVE SumOver(_, _)
SumOver(S, f) ==
    IF S = {} THEN 0
    ELSE LET x == CHOOSE y \in S : TRUE IN f[x] + SumOver(S \ {x}, f)

\* ------------------------------------------------------------------------
\* Labels: character sequences, String.prototype.toLowerCase, substring
\* ------------------------------------------------------------------------
LowerOf(c) ==
    CASE c = "A" -> "a" [] c = "E" -> "e" [] c = "F" -> "f" [] c = "G" -> "g"
      [] c = "I" -> "i" [] c = "K" -> "k" [] c = "L" -> "l" [] c = "R" -> "r"
      [] c = "C" -> "c" [] c = "H" -> "h" [] c = "M" -> "m" [] c = "N" -> "n"
      [] c = "U" -> "u" [] c = "S" -> "s" [] c = "T" -> "t" [] c = "Y" -> "y"
      [] OTHER -> c

toLowerCase(s) == [i \in 1..Len(s) |-> LowerOf(s[i])]

\* String.prototype.includes: pat occurs in s as a contiguous substring
includes(s, pat) ==
    \E i \in 1..(Len(s) - Len(pat) + 1) :
        \A j \in 1..Len(pat) : s[i + j - 1] = pat[j]

\* index of the first element of a list satisfying a predicate, 0 if none
\* (Array.prototype.find returns that element or undefined)
FindIdx(list, P(_)) ==
    IF \E i \in 1..Len(list) : P(list[i])
    THEN CHOOSE i \in 1..Len(list) :
             P(list[i]) /\ \A j \in 1..(i - 1) : ~P(list[j])
    ELSE 0

ARTIFIC == <<"a", "r", "t", "i", "f", "i", "c">>
FAKE == <<"f", "a", "k", "e">>
CG == <<"c", "g">>
SYNTH == <<"s", "y", "n", "t", "h">>
REAL == <<"r", "e", "a", "l">>
HUMAN == <<"h", "u", "m", "a", "n">>
AI == <<"a", "i">>

\* /artific|fake|cg|synth/i  (and .toLowerCase().match(/artific|fake|cg|synth/))
MatchesFake(label) ==
    LET l == toLowerCase(label)
    IN  includes(l, ARTIFIC) \/ includes(l, FAKE) \/ includes(l, CG)
            \/ includes(l, SYNTH)

\* /real|human/i
MatchesReal(label) ==
    LET l == toLowerCase(label)
    IN  includes(l, REAL) \/ includes(l, HUMAN)

\* the cascade handler's fake test: includes('artific'|'fake'|'cg')
CascadeMatchesFake(label) ==
    LET l == toLowerCase(label)
    IN  includes(l, ARTIFIC) \/ includes(l, FAKE) \/ includes(l, CG)

\* ------------------------------------------------------------------------
\* Classifier responses and their normalisation
\* ------------------------------------------------------------------------
\* A response is [kind |-> "throws"] (fetch or res.json() rejected),
\* [kind |-> "object", error |-> BOOLEAN] (a JSON body that is not an array)
\* or [kind |-> "array", items |-> <<[label, score], ...>>]; its status is
\* the HTTP status of the answer, 0 when there was none.

\* mutant: the real-type label is looked for first
queryModel_realFirst(resp) ==
    IF resp.kind = "array"
    THEN LET fake == FindIdx(resp.items, LAMBDA x : MatchesFake(x.label))
             real == FindIdx(resp.items, LAMBDA x : MatchesReal(x.label))
         IN  IF real # 0 THEN 1000 - resp.items[real].score
             ELSE IF fake # 0 THEN resp.items[fake].score
             ELSE 0
    ELSE 0

\* queryModel: the score one classifier contributes
queryModel(resp) ==
    IF resp.kind = "array"
    THEN LET fake == FindIdx(resp.items, LAMBDA x : MatchesFake(x.label))
             real == FindIdx(resp.items, LAMBDA x : MatchesReal(x.label))
         IN  IF fake # 0 THEN resp.items[fake].score
             ELSE IF real # 0 THEN 1000 - resp.items[real].score
             ELSE 0
    ELSE 0

\* ------------------------------------------------------------------------
\* Input buffers
\* ------------------------------------------------------------------------
\* A buffer is either enumerated byte by byte,
\*     [kind |-> "bytes", data |-> <<b0, b1, ...>>]      (length 0..MaxLen)
\* or a large image given by what the running handler's loops read from it:
\* its length, its two leading bytes, the entropy and variance its physics
\* loop computes, the average luminance gradient and the number of
\* compression ghosts its forensics loops find, and the sum of its first
\* 1000 bytes.
ByteValues == {0, 80, 137}

RECURSIVE SeqsUpTo(_, _)
SeqsUpTo(S, n) ==
    IF n = 0 THEN {<<>>}
    ELSE LET shorter == SeqsUpTo(S, n - 1)
         IN  shorter \cup {Append(s, x) : s \in shorter, x \in S}

SmallBuffers == [kind : {"bytes"}, data : SeqsUpTo(ByteValues, MaxLen)]

\* (entropy, variance) of large images; a byte distribution with entropy
\* above 7.8 bits is close to uniform and cannot have a small variance
PhysicsSamples ==
    { <<3000, 500>>, <<5000, 6000>>, <<5800, 1500>>, <<7000, 6000>>,
      <<7000, 1500>>, <<7850, 6000>>, <<7950, 6000>> }

Sampled(h, p, g, gh, hs) ==
    [kind |-> "sampled", length |-> 100000, b0 |-> h[1], b1 |-> h[2],
     entropy |-> p[1], variance |-> p[2], avgGradient |-> g,
     ghosts |-> gh, headSum |-> hs]

PngHead == <<137, 80>>
JpegHead == <<255, 216>>

\* large images: a JPEG and a PNG with unremarkable statistics, and images
\* that differ from them in the physics, the lighting gradient, the
\* compression ghosts or the first thousand bytes
LargeBuffers ==
    { Sampled(h, <<7000, 6000>>, 6000, 150, 127500) : h \in {PngHead, JpegHead} }
        \cup { Sampled(JpegHead, p, 6000, 150, 127500) : p \in PhysicsSamples }
        \cup { Sampled(JpegHead, <<7000, 6000>>, g, gh, 127500) :
                  g \in {5000, 6000}, gh \in {150, 200} }
        \cup { Sampled(PngHead, <<3000, 500>>, 5000, 200, 127500),
               Sampled(JpegHead, <<7000, 6000>>, 6000, 150, 3000) }

Buffers == SmallBuffers \cup LargeBuffers

\* buffer.length
Length(b) == IF b.kind = "bytes" THEN Len(b.data) ELSE b.length

\* buffer[i] for a zero-based index; -1 stands for undefined
ByteAt(b, i) ==
    IF b.kind = "bytes"
    THEN IF i >= 0 /\ i < Len(b.data) THEN b.data[i + 1] ELSE -1
    ELSE IF i = 0 THEN b.b0 ELSE IF i = 1 THEN b.b1 ELSE -1

\* const isPng = buffer[0] === 0x89 && buffer[1] === 0x50
isPng(b) == ByteAt(b, 0) = 137 /\ ByteAt(b, 1) = 80

\* Math.log2(n) in thousandths, for the sample counts of enumerated buffers
Log2Milli(n) ==
    CASE n = 1 -> 0 [] n = 2 -> 1000 [] n = 3 -> 1585 [] n = 4 -> 2000
      [] n = 5 -> 2322 [] n = 6 -> 2585 [] n = 7 -> 2807 [] OTHER -> 3000

\* -sum p*log2(p) over the byte values seen at the sampled indices
ShannonEntropy(b, samples) ==
    LET total == Cardinality(samples)
        count == [v \in ByteValues |->
                     Cardinality({i \in samples : ByteAt(b, i) = v})]
        seen == {v \in ByteValues : count[v] # 0}
        term == [v \in seen |->
                     (count[v] * (Log2Milli(total) - Log2Milli(count[v])))
                         \div total]
    IN  SumOver(seen, term)

\* calculatePhysics of titanium-v3-advanced and titanium-v1 (same code)
calculatePhysics(b) ==
    IF b.kind = "sampled"
    THEN [entropy |-> Num(b.entropy), variance |-> Num(b.variance)]
    ELSE LET len == Length(b)
             step == IF len \div 5000 = 0 THEN 1 ELSE len \div 5000
             samples == {i \in 0..(len - 1) : i % step = 0}
             total == Cardinality(samples)
             sum == SumOver(samples, [i \in samples |-> ByteAt(b, i)])
             sumSq == SumOver(samples,
                          [i \in samples |-> ByteAt(b, i) * ByteAt(b, i)])
         IN  [entropy |-> Num(ShannonEntropy(b, samples)),
              \* varianceSum / total with mean = sum / total
              variance |-> Div(total * sumSq - sum * sum, total * total, 1)]

\* calculatePhysics of nuclear-v1: entropy over every byte, variance over
\* every 100th byte but divided by len / 100.  The variance is kept in
\* hundreds (variance100), since the value itself leaves the 32-bit range
\* of TLC's integers: with mean = sum / (len / 100),
\*   variance / 100 = (sum over samples of (buffer[i] * len - 100 * sum)^2)
\*                    / len^3
nuclearPhysics(b) ==
    IF b.kind = "sampled"
    THEN [entropy |-> Num(b.entropy), variance100 |-> Num(b.variance \div 100)]
    ELSE LET len == Length(b)
             all == 0..(len - 1)
             samples == {i \in all : i % 100 = 0}
             sum == SumOver(samples, [i \in samples |-> ByteAt(b, i)])
             devSq == SumOver(samples, [i \in samples |->
                          (ByteAt(b, i) * len - 100 * sum)
                              * (ByteAt(b, i) * len - 100 * sum)])
         IN  [entropy |-> Num(ShannonEntropy(b, all)),
              variance100 |-> Div(devSq, len * len * len, 1)]

\* calculateAdvancedForensics: lighting gradient and compression ghosts
calculateAdvancedForensics(b) ==
    LET len == Length(b)
        lumIdx == {i \in 0..(len - 401) : i % 400 = 0}
        lum3(i) == ByteAt(b, i) + ByteAt(b, i + 1) + ByteAt(b, i + 2)
        gradients3 ==
            SumOver({i \in lumIdx : i > 400},
                    [i \in {j \in lumIdx : j > 400} |->
                         Abs(lum3(i) - lum3(i - 400))])
        ghostIdx == {i \in 100..(len - 101) : i % 100 = 0}
        ghostCount ==
            IF b.kind = "sampled" THEN b.ghosts
            ELSE Cardinality({i \in ghostIdx :
                     Abs(ByteAt(b, i) - ByteAt(b, i - 50)) > 240})
        \* gradients / (buffer.length / 400)
        avgGradient ==
            IF b.kind = "sampled" THEN Num(b.avgGradient)
            ELSE Div(gradients3 * 400, 3 * len, 1000)
    IN  [lighting_naturalness |->
             IF Gt(avgGradient, 5000) THEN "NATURAL" ELSE "FLAT/ARTIFICIAL",
         compression_ghosts |-> ghostCount,
         \* ghosts / (buffer.length / 100)
         ela_mismatch |-> Div(ghostCount * 100, len, 1000)]

\* calculateEntropy of the cascade handler: (sum of the first 1000 bytes
\* / 1000) % 10, in thousandths
calculateEntropy(b) ==
    LET sum == IF b.kind = "sampled" THEN b.headSum
               ELSE SumOver(1..Len(b.data), [i \in 1..Len(b.data) |-> b.data[i]])
    IN  sum % 10000

\* ------------------------------------------------------------------------
\* Configuration
\* ------------------------------------------------------------------------
\* the two requests a deployment may be handling
Requests == {"A", "B"}

TITANIUM_V3 == "forensic-titanium-v3-advanced"
NUCLEAR_V1 == "forensic-nuclear-v1"
TITANIUM_V1 == "forensic-titanium-v1"
CASCADE_V6 == "forensic-service-v6-cascade"
FBI_V1 == "FBI-Grade-Forensic-v1.0"

CouncilServices == {TITANIUM_V3, NUCLEAR_V1, TITANIUM_V1}
FusionServices == CouncilServices \cup {CASCADE_V6}
Services == FusionServices \cup {FBI_V1}

\* MODELS[i].split('/').pop() of the council handlers, in configured order
MODELS == <<"AI-image-detector", "sdxl-detector", "nsfw_image_detection",
            "AI-Image-Detector", "ai_vs_real_image_detection">>

\* MODEL_QUEUE of the cascade handler
MODEL_QUEUE == <<"umm-maybe/AI-image-detector", "Organika/sdxl-detector",
                 "Falconsai/nsfw_image_detection">>

\* the classifiers queried: the first NumModels of the configured list
\* (titanium-v1 configures the first four of MODELS, the others all five)
ModelCount(svc) ==
    Min2(NumModels, IF svc = TITANIUM_V1 THEN 4 ELSE Len(MODELS))
QueueCount == Min2(NumModels, Len(MODEL_QUEUE))

\* ------------------------------------------------------------------------
\* Metadata forensics
\* ------------------------------------------------------------------------
\* exifr.parse(buffer) rejects, resolves with undefined (no EXIF segment) or
\* resolves with an object; an absent tag is "absent", an empty one is "".
Truthy(v) == v # "absent" /\ v # ""

\* metadata = await exifr.parse(...).catch(() => ({}))
ParsedMetadata(exif) ==
    IF exif.kind = "rejects"
    THEN [kind |-> "object", Make |-> "absent", Model |-> "absent",
          ExposureTime |-> "absent", ISO |-> "absent", status |-> "absent"]
    ELSE exif

\* metadata && (Make || Model || ExposureTime || ISO); nuclear-v1 does not
\* look at ISO
CameraFields(svc, meta) ==
    /\ meta.kind = "object"
    /\ \/ Truthy(meta.Make)
       \/ Truthy(meta.Model)
       \/ Truthy(meta.ExposureTime)
       \/ (svc # NUCLEAR_V1 /\ Truthy(meta.ISO))

\* metadata.status = "hardware_verified" | "valid" | "valid_hardware_data"
MetadataDump(svc, meta) ==
    IF CameraFields(svc, meta)
    THEN [meta EXCEPT !.status =
             IF svc = TITANIUM_V3 THEN "hardware_verified"
             ELSE IF svc = NUCLEAR_V1 THEN "valid"
             ELSE "valid_hardware_data"]
    ELSE meta

\* ------------------------------------------------------------------------
\* The council vote: results.forEach((r, i) => { if (r.score > max) ... })
\* ------------------------------------------------------------------------
RECURSIVE CouncilFold(_, _, _)
CouncilFold(res, i, acc) ==
    IF i > Len(res) THEN acc
    ELSE CouncilFold(res, i + 1,
             IF res[i] > acc.maxAiScore
             THEN [maxAiScore |-> res[i], detectionSource |-> MODELS[i]]
             ELSE acc)

\* mutant: the fold gives up at the first classifier that scored 0
CouncilVote_stopsAtFailure(res) ==
    LET zeros == {i \in 1..Len(res) : res[i] = 0}
        stop == IF zeros = {} THEN Len(res) + 1
                ELSE CHOOSE i \in zeros : \A j \in zeros : i <= j
    IN  CouncilFold(SubSeq(res, 1, stop - 1), 1,
                    [maxAiScore |-> 0, detectionSource |-> "None"])

\* res is the list of scores Promise.all resolved with, <<>> without a key
CouncilVote(res) ==
    CouncilFold(res, 1, [maxAiScore |-> 0, detectionSource |-> "None"])

\* ------------------------------------------------------------------------
\* forensic-titanium-v3-advanced: fusion
\* ------------------------------------------------------------------------
\* mutant: physicsScore lives at module scope and is not reset, so a
\* request starts from the scores of the reports already sent
V3PhysicsScore_shared(physics) ==
    LET sent == {r \in DOMAIN response :
                    /\ response[r].status = 200
                    /\ "details" \in DOMAIN response[r].body
                    /\ "aiArtifacts" \in DOMAIN response[r].body.details}
        left == SumOver(sent, [r \in sent |->
                    response[r].body.details.aiArtifacts.physics_score])
        s1 == IF Lt(physics.entropy, 6000) THEN 600 ELSE 0
        s2 == IF Gt(physics.entropy, 7900) THEN 600 ELSE 0
        s3 == IF Lt(physics.variance, 2000) THEN 300 ELSE 0
    IN  Min2(left + s1 + s2 + s3, 950)

\* 5. PHYSICS ENGINE V2
V3PhysicsScore(physics) ==
    LET s1 == IF Lt(physics.entropy, 6000) THEN 600 ELSE 0
        s2 == IF Gt(physics.entropy, 7900) THEN 600 ELSE 0
        s3 == IF Lt(physics.variance, 2000) THEN 300 ELSE 0
    IN  Min2(0 + s1 + s2 + s3, 950)

\* mutant: both advanced findings weigh 0.5
V3AdvancedRisk_heavy(advanced) ==
    (IF advanced.lighting_naturalness = "FLAT/ARTIFICIAL" THEN 500 ELSE 0)
        + (IF Gt(advanced.ela_mismatch, 150) THEN 500 ELSE 0)

\* 6. ADVANCED FORENSICS
V3AdvancedRisk(advanced) ==
    (IF advanced.lighting_naturalness = "FLAT/ARTIFICIAL" THEN 400 ELSE 0)
        + (IF Gt(advanced.ela_mismatch, 150) THEN 500 ELSE 0)

\* mutant: the PNG trap is worth 0.90
FormatRisk_weak(b, cam) == IF isPng(b) /\ ~cam THEN 900 ELSE 0

\* 7. FORMAT ANOMALY (PNG Trap); the same in titanium-v1
FormatRisk(b, cam) == IF isPng(b) /\ ~cam THEN 950 ELSE 0

\* mutant: the escalation waits for a confident classifier
V3Escalates_confident(maxAiScore, cam) == maxAiScore > 500 /\ ~cam

\* mutant: the escalation forgets the camera check
V3Escalates_anyOrigin(maxAiScore, cam) == maxAiScore > 150

\* if (maxAiScore > 0.15 && !hasCamera): missing-origin escalation
V3Escalates(maxAiScore, cam) == maxAiScore > 150 /\ ~cam

\* mutant: the floor compares with 0 instead of 0.1
V3Floors_zero(finalRisk, cam) == finalRisk < 0 /\ ~cam

\* mutant: the floor also takes an escalated risk
V3Floors_wide(finalRisk, cam) == finalRisk < 1000 /\ ~cam

\* if (finalRisk < 0.1 && !hasCamera): uncertainty floor
V3Floors(finalRisk, cam) == finalRisk < 100 /\ ~cam

\* mutant: the maximum leaves the advanced forensics out
V3Signals_three(maxAiScore, physicsScore, formatRisk, advancedRisk) ==
    Max2(Max2(maxAiScore, physicsScore), formatRisk)

\* Math.max(maxAiScore, physicsScore, formatRisk, advancedRisk)
V3Signals(maxAiScore, physicsScore, formatRisk, advancedRisk) ==
    Max2(Max2(maxAiScore, physicsScore), Max2(formatRisk, advancedRisk))

\* mutant: the physics rung is tried before the advanced forensics
V3Method_physicsFirst(maxAiScore, physicsScore, formatRisk, advancedRisk, source) ==
    IF formatRisk > maxAiScore /\ formatRisk > physicsScore
    THEN <<"FORMAT_ANOMALY (PNG_NO_EXIF)">>
    ELSE IF physicsScore > maxAiScore
    THEN <<"PHYSICS_ENGINE (ENTROPY_MISMATCH)">>
    ELSE IF advancedRisk > 800
    THEN <<"ADVANCED_FORENSICS (ELA/LIGHTING)">>
    ELSE IF maxAiScore > 500
    THEN <<"NEURAL_NET (", source, ")">>
    ELSE <<"UNCERTAIN">>

\* let detectionMethod = "UNCERTAIN"; if ... else if ...
V3Method(maxAiScore, physicsScore, formatRisk, advancedRisk, source) ==
    IF formatRisk > maxAiScore /\ formatRisk > physicsScore
    THEN <<"FORMAT_ANOMALY (PNG_NO_EXIF)">>
    ELSE IF advancedRisk > 800
    THEN <<"ADVANCED_FORENSICS (ELA/LIGHTING)">>
    ELSE IF physicsScore > maxAiScore
    THEN <<"PHYSICS_ENGINE (ENTROPY_MISMATCH)">>
    ELSE IF maxAiScore > 500
    THEN <<"NEURAL_NET (", source, ")">>
    ELSE <<"UNCERTAIN">>

\* 8. FINAL VERDICT: finalRisk and detectionMethod
V3Fusion(vote, physicsScore, advancedRisk, formatRisk, cam) ==
    LET maxAiScore == vote.maxAiScore
        risk0 == V3Signals(maxAiScore, physicsScore, formatRisk,
                           advancedRisk)
        method0 == V3Method(maxAiScore, physicsScore, formatRisk,
                            advancedRisk, vote.detectionSource)
        esc == V3Escalates(maxAiScore, cam)
        risk1 == IF esc THEN Max2(risk0, 900) ELSE risk0
        method1 == IF esc THEN method0 \o <<" + MISSING_ORIGIN">> ELSE method0
        flo == V3Floors(risk1, cam)
    IN  [finalRisk |-> IF flo THEN 450 ELSE risk1,
         detectionMethod |-> IF flo THEN <<"HEURISTIC_UNCERTAINTY">> ELSE method1,
         physicsScore |-> physicsScore, formatRisk |-> formatRisk,
         advancedRisk |-> advancedRisk]

\* mutant: >= instead of >
Classification_atLeast(risk) == IF risk >= 500 THEN "SYNTHETIC" ELSE "ORGANIC"

Classification(risk) == IF risk > 500 THEN "SYNTHETIC" ELSE "ORGANIC"

\* res.status(200).json({ service: "forensic-titanium-v3-advanced", ... })
V3Response(f, vote, physics, advanced, meta) ==
        [service |-> TITANIUM_V3,
         verdict |-> [aiProbability |-> f.finalRisk,
                      classification |-> Classification(f.finalRisk),
                      detection_method |-> f.detectionMethod],
         details |-> [
             aiArtifacts |-> [confidence |-> f.finalRisk,
                              detected |-> f.finalRisk > 500,
                              model_flagged |-> vote.detectionSource,
                              physics_score |-> f.physicsScore,
                              format_risk |-> f.formatRisk,
                              advanced_risk |-> f.advancedRisk,
                              council_max |-> vote.maxAiScore],
             noiseAnalysis |-> [entropy |-> physics.entropy,
                                variance |-> physics.variance,
                                verdict |-> IF f.physicsScore > 500
                                            THEN "ARTIFICIAL_PATTERN"
                                            ELSE "NATURAL_NOISE"],
             advancedForensics |-> [
                 lighting |-> advanced.lighting_naturalness,
                 ela_score |-> advanced.ela_mismatch,
                 compression_ghosts |-> advanced.compression_ghosts],
             metadataDump |-> meta]]

\* the handler of titanium-v3-advanced from the buffer to the response
V3Report(b, meta, cam, res) ==
    V3Response(V3Fusion(CouncilVote(res),
                        V3PhysicsScore(calculatePhysics(b)),
                        V3AdvancedRisk(calculateAdvancedForensics(b)),
                        FormatRisk(b, cam), cam),
               CouncilVote(res), calculatePhysics(b),
               calculateAdvancedForensics(b), meta)

\* catch (error): res.status(200).json({ service: "forensic-crash-recovery" })
CrashRecovery ==
    [service |-> "forensic-crash-recovery",
     verdict |-> [aiProbability |-> 500, classification |-> "UNKNOWN_ERROR"],
     details |-> [error |-> "error.message"]]

\* ------------------------------------------------------------------------
\* forensic-nuclear-v1: fusion
\* ------------------------------------------------------------------------
\* 5. LOCAL PHYSICS ENGINE
NuclearPhysicsScore(physics, cam) ==
    (IF Lt(physics.entropy, 4200) THEN 400 ELSE 0)
        + (IF Lt(physics.variance100, 10) THEN 300 ELSE 0)
        + (IF ~cam THEN 200 ELSE 0)

\* mutant: the boost without its cap
NuclearBoost_uncapped(finalRisk) == finalRisk + 150

\* Paranoid Boost: finalRisk = Math.min(finalRisk + 0.15, 0.99)
NuclearBoost(finalRisk) == Min2(finalRisk + 150, 990)

\* 6. FINAL VERDICT CALCULATION
NuclearFusion(vote, physicsScore, cam) ==
    LET risk0 == Max2(vote.maxAiScore, physicsScore)
        boosted == risk0 > 500 /\ ~cam
        risk1 == IF boosted THEN NuclearBoost(risk0) ELSE risk0
        floored == risk1 < 100 /\ ~cam
    IN  [finalRisk |-> IF floored THEN 450 ELSE risk1,
         detectionMethod |-> IF vote.maxAiScore > physicsScore
                             THEN <<"NEURAL_NET">> ELSE <<"PHYSICS_ENGINE">>,
         physicsScore |-> physicsScore, boosted |-> boosted,
         floored |-> floored]

NuclearResponse(f, vote, meta) ==
        [service |-> NUCLEAR_V1,
         verdict |-> [aiProbability |-> f.finalRisk,
                      classification |-> Classification(f.finalRisk),
                      detection_method |-> f.detectionMethod],
         details |-> [
             aiArtifacts |-> [confidence |-> f.finalRisk,
                              detected |-> f.finalRisk > 500,
                              model_flagged |-> vote.detectionSource,
                              physics_score |-> f.physicsScore],
             metadataDump |-> meta]]

\* the handler of nuclear-v1 from the buffer to the response
NuclearReport(b, meta, cam, res) ==
    NuclearResponse(NuclearFusion(CouncilVote(res),
                        NuclearPhysicsScore(nuclearPhysics(b), cam), cam),
                    CouncilVote(res), meta)

\* ------------------------------------------------------------------------
\* forensic-titanium-v1: fusion
\* ------------------------------------------------------------------------
\* 4. PHYSICS ENGINE V2 (Hyper-Entropy)
V1PhysicsScore(physics) ==
    (IF Lt(physics.entropy, 5500) THEN 450 ELSE 0)
        + (IF Gt(physics.entropy, 7800) THEN 400 ELSE 0)

\* 5. FINAL CALCULATION
V1Fusion(vote, physicsScore, formatRisk, cam) ==
    LET risk0 == Max2(Max2(vote.maxAiScore, physicsScore), formatRisk)
        esc == vote.maxAiScore > 150 /\ ~cam
    IN  [finalRisk |-> IF esc THEN Max2(risk0, 900) ELSE risk0,
         detectionMethod |-> IF formatRisk > 800 THEN <<"FORMAT_ANOMALY">>
                             ELSE <<"NEURAL_ENSEMBLE">>,
         physicsScore |-> physicsScore, formatRisk |-> formatRisk]

V1Response(f, vote, physics, meta) ==
        [service |-> TITANIUM_V1,
         verdict |-> [aiProbability |-> f.finalRisk,
                      classification |-> Classification(f.finalRisk),
                      detection_method |-> f.detectionMethod],
         details |-> [
             aiArtifacts |-> [confidence |-> f.finalRisk,
                              detected |-> f.finalRisk > 500,
                              model_flagged |-> vote.detectionSource,
                              physics_score |-> f.physicsScore,
                              format_risk |-> f.formatRisk],
             noiseAnalysis |-> [entropy |-> physics.entropy,
                                variance |-> physics.variance,
                                suspicious |-> Gt(physics.entropy, 7800)
                                               \/ Lt(physics.entropy, 5500)],
             metadataDump |-> meta]]

\* the handler of titanium-v1 from the buffer to the response
V1Report(b, meta, cam, res) ==
    V1Response(V1Fusion(CouncilVote(res), V1PhysicsScore(calculatePhysics(b)),
                        FormatRisk(b, cam), cam),
               CouncilVote(res), calculatePhysics(b), meta)

\* the report of the council handler that is deployed
CouncilReport(svc, b, meta, cam, res) ==
    IF svc = TITANIUM_V3 THEN V3Report(b, meta, cam, res)
    ELSE IF svc = NUCLEAR_V1 THEN NuclearReport(b, meta, cam, res)
    ELSE V1Report(b, meta, cam, res)

\* what a council handler's catch block answers
CouncilCrash(svc) ==
    IF svc = TITANIUM_V1
    THEN [status |-> 500,
          body |-> [error |-> "Forensic Crash", details |-> "error.message"]]
    ELSE [status |-> 200, body |-> CrashRecovery]

\* ------------------------------------------------------------------------
\* forensic-service-v6-cascade
\* ------------------------------------------------------------------------
\* the score one list response yields in the cascade loop
CascadeScore(items) ==
    LET fake == FindIdx(items, LAMBDA x : CascadeMatchesFake(x.label))
        real == FindIdx(items, LAMBDA x : MatchesReal(x.label))
    IN  IF fake # 0 THEN items[fake].score
        ELSE IF real # 0 THEN 1000 - items[real].score
        ELSE 0

\* 5. NOISE ANALYSIS and the response
CascadeResponse(noiseScore, meta, c) ==
    LET lowEntropy == noiseScore < 4500
        aiScore == IF c.aiScore = 0 /\ lowEntropy THEN 450 ELSE c.aiScore
    IN  [service |-> CASCADE_V6,
         verdict |-> [aiProbability |-> aiScore,
                      classification |-> Classification(aiScore)],
         details |-> [
             aiArtifacts |-> [confidence |-> aiScore,
                              detected |-> aiScore > 500,
                              generator |-> IF aiScore > 800
                                            THEN "High-Fidelity Model"
                                            ELSE "Unknown",
                              modelUsed |-> c.usedModel],
             noiseAnalysis |-> [entropy |-> noiseScore,
                                suspicious |-> lowEntropy],
             metadataDump |-> meta]]

\* the cascade handler's response for buffer b
CascadeReport(b, meta, c) == CascadeResponse(calculateEntropy(b), meta, c)

\* ------------------------------------------------------------------------
\* FBI-Grade-Forensic-v1.0: simulated analysis
\* ------------------------------------------------------------------------
\* d is the tuple of Math.random() results, in thousandths, drawn by
\* checkSteganography, analyzeNoisePatterns, checkJPEGQuantization and
\* detectAIArtifacts
FBIReport(d) ==
    LET detected == d[1] < 100
        inconsistent == d[2] < 400
        resaved == d[3] < 500
        confidence == d[4]
        riskScore == Min2((IF detected THEN 20 ELSE 0)
                          + (IF inconsistent THEN 30 ELSE 0)
                          + (IF resaved THEN 10 ELSE 0)
                          + (IF confidence > 800 THEN 50
                             ELSE IF confidence > 500 THEN 25 ELSE 0), 100)
    IN  [version |-> FBI_V1,
         score |-> riskScore,
         summary |-> IF riskScore > 75 THEN "CRITICAL"
                     ELSE IF riskScore > 40 THEN "WARNING"
                     ELSE "Analysis complete",
         details |-> [steganography |-> detected,
                      noiseAnalysis |-> inconsistent,
                      quantization |-> resaved,
                      aiArtifacts |-> confidence]]

\* ------------------------------------------------------------------------
\* Inputs of the model
\* ------------------------------------------------------------------------
Label_artificial == <<"a", "r", "t", "i", "f", "i", "c", "i", "a", "l">>
Label_human == <<"h", "u", "m", "a", "n">>
Label_REAL == <<"R", "E", "A", "L">>
Label_FAKE == <<"F", "A", "K", "E">>
Label_ai == <<"a", "i">>
Label_AIGenerated == <<"A", "I", "-", "g", "e", "n">>
Label_synthetic == <<"S", "y", "n", "t", "h", "e", "t", "i", "c">>
Label_CGI == <<"C", "G", "I">>
Label_nsfw == <<"n", "s", "f", "w">>
Label_normal == <<"n", "o", "r", "m", "a", "l">>

Item(l, s) == [label |-> l, score |-> s]
Throws == [kind |-> "throws", status |-> 0]
ErrorBody == [kind |-> "object", error |-> TRUE, status |-> 503]
\* the endpoint never answers: the awaited promise never settles
Never == [kind |-> "never"]
List(items) == [kind |-> "array", items |-> items, status |-> 200]
\* a body that is not JSON under the given status: res.json() rejects
NotJson(st) == [kind |-> "throws", status |-> st]
\* a list under the given status
Answer(st, items) == [kind |-> "array", items |-> items, status |-> st]

\* what one classifier may answer
ClassifierResponses ==
    { Throws, ErrorBody,
      List(<<Item(Label_artificial, 920), Item(Label_human, 80)>>),
      List(<<Item(Label_human, 800), Item(Label_artificial, 200)>>),
      List(<<Item(Label_FAKE, 500), Item(Label_REAL, 500)>>),
      List(<<Item(Label_REAL, 0)>>) }

NoTags == [kind |-> "object", Make |-> "absent", Model |-> "absent",
           ExposureTime |-> "absent", ISO |-> "absent", status |-> "absent"]

\* what exifr.parse may do
ExifOutcomes ==
    { [kind |-> "rejects"], [kind |-> "undefined"],
      [NoTags EXCEPT !.Make = "Canon", !.Model = "EOS R5"],
      [NoTags EXCEPT !.ISO = "100"],
      [NoTags EXCEPT !.Make = ""] }

EmptyBuffer == [kind |-> "bytes", data |-> <<>>]

\* what fetch(mediaUrl) may do: reject, resolve with a status and a body,
\* or stay pending for ever (the call carries no timeout)
FetchOutcomes(Bufs) ==
    {[kind |-> "throws"], Never}
        \cup {[kind |-> "resolves", ok |-> TRUE, body |-> b] : b \in Bufs}
        \cup {[kind |-> "resolves", ok |-> FALSE, body |-> EmptyBuffer]}

HttpRequests == [method : {"OPTIONS", "POST"}, body : {"undefined", "noUrl", "url"}]

\* results of Math.random(), in thousandths
Draws == {50, 450, 900}

\* an environment variable that is not defined, a header that was not sent
Unset == "undefined"

NoResponse == [status |-> 0, body |-> [none |-> TRUE]]
NoBuffer == [kind |-> "none"]
NoCascade == [next |-> 0, aiScore |-> 0, usedModel |-> "None", tried |-> <<>>]
NoScore == [done |-> FALSE, council |-> 0, cascade |-> 0]

\* ------------------------------------------------------------------------
\* State machine
\* ------------------------------------------------------------------------
\* service   the handler that is deployed
\* hfKey     process.env.HF_API_KEY is set
\* workerSecret   process.env.WORKER_SECRET, Unset when it is not defined
\* pc[r]     where request r is: idle, start, metadata, council, cascade, done,
\*           or hung (parked at an await that never settles)
\* results   per request, the classifier promises: <<[done, failed,
\*           score], ...>>; failed: the call threw or did not return a list
\* cascade   per request, the cascade loop: next queue index, aiScore,
\*           usedModel, and the calls made so far with their answers
\* qResponse, qScore   the classifier response being normalised (SpecQuery)

Idle ==
    /\ pc = [r \in Requests |-> "idle"]
    /\ req = [r \in Requests |-> [method |-> "none", body |-> "undefined"]]
    /\ buffer = [r \in Requests |-> NoBuffer]
    /\ metadata = [r \in Requests |-> [kind |-> "none"]]
    /\ hasCamera = [r \in Requests |-> FALSE]
    /\ results = [r \in Requests |-> <<>>]
    /\ cascade = [r \in Requests |-> NoCascade]
    /\ response = [r \in Requests |-> NoResponse]

Init ==
    /\ service \in Services
    /\ hfKey \in BOOLEAN
    /\ workerSecret = Unset
    /\ Idle
    /\ qResponse = [kind |-> "none"]
    /\ qScore = NoScore

Respond(r, status, body) ==
    /\ response' = [response EXCEPT ![r] = [status |-> status, body |-> body]]
    /\ pc' = [pc EXCEPT ![r] = "done"]

\* a request reaches the handler
Arrive(r, q) ==
    /\ pc[r] = "idle"
    /\ req' = [req EXCEPT ![r] = q]
    /\ pc' = [pc EXCEPT ![r] = "start"]
    /\ UNCHANGED <<workerSecret, service, hfKey, buffer, metadata, hasCamera, results,
                   cascade, response, qResponse, qScore>>

\* if (req.method === 'OPTIONS') return res.status(200).end()
Preflight(r) ==
    /\ pc[r] = "start"
    /\ service \in FusionServices
    /\ req[r].method = "OPTIONS"
    /\ Respond(r, 200, [ended |-> TRUE])
    /\ UNCHANGED <<workerSecret, service, hfKey, req, buffer, metadata, hasCamera, results,
                   cascade, qResponse, qScore>>

\* if (!mediaUrl) return res.status(400).json({ error: 'No mediaUrl ...' })
NoMediaUrl(r) ==
    /\ pc[r] = "start"
    /\ service \in FusionServices
    /\ req[r].method # "OPTIONS"
    /\ req[r].body # "url"
    /\ Respond(r, 400, [error |-> "No mediaUrl provided"])
    /\ UNCHANGED <<workerSecret, service, hfKey, req, buffer, metadata, hasCamera, results,
                   cascade, qResponse, qScore>>

\* what the catch block of the deployed fusion handler answers
Crash(svc) ==
    IF svc = CASCADE_V6
    THEN [status |-> 500,
          body |-> [error |-> "Forensic Crash", details |-> "error.message"]]
    ELSE CouncilCrash(svc)

\* const imgRes = await fetch(mediaUrl); if (!imgRes.ok) throw ...
\* (titanium-v1 does not look at imgRes.ok)
FetchEvidence(r, out) ==
    /\ pc[r] = "start"
    /\ service \in FusionServices
    /\ req[r].method # "OPTIONS"
    /\ req[r].body = "url"
    /\ IF out.kind = "never"
       THEN /\ pc' = [pc EXCEPT ![r] = "hung"]
            /\ UNCHANGED <<buffer, response>>
       ELSE IF out.kind = "throws" \/ (~out.ok /\ service # TITANIUM_V1)
       THEN /\ Respond(r, Crash(service).status, Crash(service).body)
            /\ UNCHANGED buffer
       ELSE /\ buffer' = [buffer EXCEPT ![r] = out.body]
            /\ pc' = [pc EXCEPT ![r] = "metadata"]
            /\ UNCHANGED response
    /\ UNCHANGED <<workerSecret, service, hfKey, req, metadata, hasCamera, results,
                   cascade, qResponse, qScore>>

\* exifr.parse settles; without an API key the handler runs on to its
\* response, with one it starts the classifier calls
MetadataForensics(r, exif) ==
    /\ pc[r] = "metadata"
    /\ LET parsed == ParsedMetadata(exif)
           cam == service \in CouncilServices /\ CameraFields(service, parsed)
           meta == IF service \in CouncilServices
                   THEN MetadataDump(service, parsed) ELSE parsed
       IN  /\ metadata' = [metadata EXCEPT ![r] = meta]
           /\ hasCamera' = [hasCamera EXCEPT ![r] = cam]
           /\ IF hfKey
              THEN /\ IF service = CASCADE_V6
                      THEN /\ pc' = [pc EXCEPT ![r] = "cascade"]
                           /\ cascade' = [cascade EXCEPT ![r].next = 1]
                           /\ UNCHANGED results
                      ELSE /\ pc' = [pc EXCEPT ![r] = "council"]
                           /\ results' = [results EXCEPT ![r] =
                                  [i \in 1..ModelCount(service) |->
                                      [done |-> FALSE, failed |-> FALSE,
                                       score |-> 0]]]
                           /\ UNCHANGED cascade
                   /\ UNCHANGED response
              ELSE /\ Respond(r, 200,
                          IF service = CASCADE_V6
                          THEN CascadeReport(buffer[r], meta, cascade[r])
                          ELSE CouncilReport(service, buffer[r], meta, cam, <<>>))
                   /\ UNCHANGED <<results, cascade>>
    /\ UNCHANGED <<workerSecret, service, hfKey, req, buffer, qResponse, qScore>>

\* one queryModel promise settles, or its fetch (which carries no timeout)
\* turns out never to answer: Promise.all then stays pending
QueryModel(r, i, resp) ==
    /\ pc[r] = "council"
    /\ i \in 1..Len(results[r])
    /\ ~results[r][i].done
    /\ IF resp.kind = "never"
       THEN /\ pc' = [pc EXCEPT ![r] = "hung"]
            /\ UNCHANGED results
       ELSE /\ results' = [results EXCEPT ![r][i] =
                      [done |-> TRUE, failed |-> resp.kind # "array",
                       score |-> queryModel(resp)]]
            /\ UNCHANGED pc
    /\ UNCHANGED <<workerSecret, service, hfKey, req, buffer, metadata, hasCamera,
                   cascade, response, qResponse, qScore>>

\* mutant: the results are collected in another order than MODELS
Scores_reversed(res) == [i \in 1..Len(res) |-> res[Len(res) + 1 - i].score]

\* const results = await Promise.all(promises): the scores in the order of
\* MODELS, whatever the order in which the promises settled
Scores(res) == [i \in 1..Len(res) |-> res[i].score]

\* Promise.all has resolved: vote, fuse and respond
CouncilVerdict(r) ==
    /\ pc[r] = "council"
    /\ \A i \in 1..Len(results[r]) : results[r][i].done
    /\ Respond(r, 200, CouncilReport(service, buffer[r], metadata[r],
                                     hasCamera[r], Scores(results[r])))
    /\ UNCHANGED <<workerSecret, service, hfKey, req, buffer, metadata, hasCamera, results,
                   cascade, qResponse, qScore>>

\* mutant: the loop has no break
CascadeStops_exhausts(hit, next) == next >= QueueCount

\* break on a list response; the for loop ends with MODEL_QUEUE
CascadeStops(hit, next) == hit \/ next >= QueueCount

\* one iteration of the cascade loop; the loop ends on the first list
\* response or with the queue, and the handler then responds
CascadeTry(r, resp) ==
    /\ pc[r] = "cascade"
    /\ LET c == cascade[r]
           hit == resp.kind = "array"
           c1 == IF hit
                 THEN [c EXCEPT !.aiScore = CascadeScore(resp.items),
                                !.usedModel = MODEL_QUEUE[c.next]]
                 ELSE c
           c2 == [c1 EXCEPT !.next = c.next + 1,
                            !.tried = Append(c.tried,
                                [model |-> MODEL_QUEUE[c.next],
                                 resp |-> resp])]
       IN  IF resp.kind = "never"
           THEN /\ pc' = [pc EXCEPT ![r] = "hung"]
                /\ UNCHANGED <<cascade, response>>
           ELSE /\ cascade' = [cascade EXCEPT ![r] = c2]
                /\ IF CascadeStops(hit, c.next)
                   THEN Respond(r, 200,
                                CascadeReport(buffer[r], metadata[r], c2))
                   ELSE UNCHANGED <<pc, response>>
    /\ UNCHANGED <<workerSecret, service, hfKey, req, buffer, metadata, hasCamera, results,
                   qResponse, qScore>>

\* the simulated handler: method and body checks
FBIReject(r) ==
    /\ pc[r] = "start"
    /\ service = FBI_V1
    /\ \/ /\ req[r].method = "OPTIONS"
          /\ Respond(r, 200, [ended |-> TRUE])
       \/ /\ req[r].method = "POST"
          /\ req[r].body = "undefined"
          /\ Respond(r, 500, [error |-> "Forensic analysis failed"])
       \/ /\ req[r].method = "POST"
          /\ req[r].body = "noUrl"
          /\ Respond(r, 400, [error |-> "No mediaUrl provided"])
    /\ UNCHANGED <<workerSecret, service, hfKey, req, buffer, metadata, hasCamera, results,
                   cascade, qResponse, qScore>>

\* the simulated handler: four simulated analyses, score and report
FBIAnalyze(r, d) ==
    /\ pc[r] = "start"
    /\ service = FBI_V1
    /\ req[r].method = "POST"
    /\ req[r].body = "url"
    /\ Respond(r, 200, FBIReport(d))
    /\ UNCHANGED <<workerSecret, service, hfKey, req, buffer, metadata, hasCamera, results,
                   cascade, qResponse, qScore>>

\* the steps of request r over the given input sets
Handle(r, Qs, Bufs, Exifs, Resps) ==
    \/ \E q \in Qs : Arrive(r, q)
    \/ Preflight(r)
    \/ NoMediaUrl(r)
    \/ \E out \in FetchOutcomes(Bufs) : FetchEvidence(r, out)
    \/ \E exif \in Exifs : MetadataForensics(r, exif)
    \/ \E i \in 1..NumModels, resp \in Resps : QueryModel(r, i, resp)
    \/ CouncilVerdict(r)
    \/ \E resp \in Resps : CascadeTry(r, resp)
    \/ FBIReject(r)
    \/ \E d \in Draws \X Draws \X Draws \X Draws : FBIAnalyze(r, d)

\* one request, every input
Next == Handle("A", HttpRequests, Buffers, ExifOutcomes, ClassifierResponses)

Spec == Init /\ [][Next]_vars

\* ------------------------------------------------------------------------
\* Two requests to one deployment, interleaved
\* ------------------------------------------------------------------------
PairBuffers ==
    { EmptyBuffer,
      Sampled(JpegHead, <<7000, 6000>>, 6000, 150, 127500),
      Sampled(PngHead, <<3000, 500>>, 5000, 200, 127500) }

PairExifs == { [kind |-> "undefined"],
               [NoTags EXCEPT !.Make = "Canon", !.Model = "EOS R5"] }

PairResponses ==
    { Throws, List(<<Item(Label_artificial, 920), Item(Label_human, 80)>>) }

NextPair ==
    \E r \in Requests :
        Handle(r, HttpRequests, PairBuffers, PairExifs, PairResponses)

SpecPair == Init /\ [][NextPair]_vars

\* ------------------------------------------------------------------------
\* One request whose external endpoints may never answer; the event loop
\* runs every continuation that is ready
\* ------------------------------------------------------------------------
NextLive ==
    Handle("A", HttpRequests, PairBuffers, PairExifs,
           PairResponses \cup {Never})

SpecLive == Init /\ [][NextLive]_vars /\ WF_vars(NextLive)

\* ------------------------------------------------------------------------
\* Two requests whose classifiers differ in how sure they are
\* ------------------------------------------------------------------------
MonoBuffers ==
    { Sampled(JpegHead, <<7000, 6000>>, 6000, 150, 127500),
      Sampled(PngHead, <<3000, 500>>, 5000, 200, 127500) }

\* classifier scores of 0.05, 0.12 and 0.92
MonoResponses ==
    { List(<<Item(Label_human, 950)>>), List(<<Item(Label_human, 880)>>),
      List(<<Item(Label_artificial, 920), Item(Label_human, 80)>>) }

NextMono ==
    \E r \in Requests :
        Handle(r, HttpRequests, MonoBuffers, PairExifs, MonoResponses)

SpecMono == Init /\ [][NextMono]_vars

\* ------------------------------------------------------------------------
\* One request whose classifier endpoints answer under any HTTP status
\* ------------------------------------------------------------------------
StatusResponses ==
    { Throws, NotJson(503), ErrorBody,
      Answer(503, <<Item(Label_artificial, 920)>>),
      List(<<Item(Label_nsfw, 900), Item(Label_normal, 100)>>),
      List(<<Item(Label_artificial, 920), Item(Label_human, 80)>>) }

NextStatus ==
    Handle("A", HttpRequests, PairBuffers, PairExifs, StatusResponses)

SpecStatus == Init /\ [][NextStatus]_vars

\* ------------------------------------------------------------------------
\* The upload handlers: enterprise-1.0 and the composite-score handler
\* ------------------------------------------------------------------------
\* Both accept the media itself (base64 in JSON, or a raw body) or a URL,
\* and both refuse media above 12 MB.  A buffer is given here by its
\* length, [kind |-> "sized", length |-> n]: the size check, the status and
\* the shape of the report do not read its bytes.
ENTERPRISE == "enterprise-1.0"
COMPOSITE == "composite-score"
UploadServices == {ENTERPRISE, COMPOSITE}

\* const MAX_BYTES = 12 * 1024 * 1024
MAX_BYTES == 12582912

\* if (len > MAX_BYTES + 1024) reject(new Error("Payload too large"))
StreamSlack == 1024

Sized(n) == [kind |-> "sized", length |-> n]

\* media sizes around the two limits
Sizes ==
    { 0, 1000, MAX_BYTES, MAX_BYTES + 1, MAX_BYTES + StreamSlack,
      MAX_BYTES + StreamSlack + 1 }

\* what the request body holds: nothing, text that is not JSON, the JSON
\* null, an object without data and url, an object with base64 data that
\* decodes to size bytes, an object with a url, or size raw bytes
UploadBodies ==
    { [kind |-> k, size |-> 0] : k \in {"none", "invalid", "null", "neither", "url"} }
        \cup { [kind |-> k, size |-> n] : k \in {"data", "raw"}, n \in Sizes }

\* json: the content type includes application/json; parsed: the platform
\* has parsed the body into req.body (otherwise it is read from the stream)
UploadRequests ==
    { q \in [method : {"OPTIONS", "GET", "POST", "PUT"}, json : BOOLEAN,
             parsed : BOOLEAN, body : UploadBodies] :
        /\ q.method # "POST"
           => q.json /\ ~q.parsed /\ q.body.kind = "none"
        /\ q.body.kind = "raw" <=> ~q.json
        /\ q.parsed => q.body.kind \in {"neither", "url", "data", "raw"}
        /\ q.parsed /\ q.body.kind = "raw" => q.body.size > 0 }

\* bytes on the wire: base64 takes 4 characters for 3 bytes, inside
\* {"data":"..."}; the other JSON bodies are short
WireLength(body) ==
    IF body.kind = "raw" THEN body.size
    ELSE IF body.kind = "data" THEN 4 * ((body.size + 2) \div 3) + 11
    ELSE IF body.kind = "none" THEN 0
    ELSE 50

\* readRequestBody: req.body if the platform parsed it, else the stream,
\* which rejects once more than MAX_BYTES + 1024 bytes have arrived
readRequestBody(q) ==
    IF q.parsed THEN "body"
    ELSE IF WireLength(q.body) > MAX_BYTES + StreamSlack THEN "rejects"
    ELSE "buffer"

jsonError(status, message) ==
    [status |-> status, body |-> [ok |-> FALSE, error |-> message]]

\* if (buffer.length > MAX_BYTES) return jsonError(res, 413, ...)
TooLarge(n) == n > MAX_BYTES

\* where enterprise-1.0 stands after its input parsing: an error response,
\* a download to make, or a buffer that passed the size check
EnterpriseInput(q) ==
    LET read == readRequestBody(q)
        k == q.body.kind
    IN  IF q.json
        THEN IF read = "rejects"
             THEN [to |-> "respond",
                   with |-> jsonError(500, "Internal Server Error")]
             ELSE IF ~q.parsed /\ k \in {"none", "invalid"}
             THEN [to |-> "respond",
                   with |-> jsonError(400, "Invalid JSON body")]
             ELSE IF k = "null"
             THEN [to |-> "respond",
                   with |-> jsonError(400, "Empty JSON body")]
             ELSE IF k = "url" THEN [to |-> "download"]
             ELSE IF k = "data" /\ q.body.size > 0
             THEN IF TooLarge(q.body.size)
                  THEN [to |-> "respond",
                        with |-> jsonError(413, "File too large")]
                  ELSE [to |-> "analyze", buffer |-> Sized(q.body.size)]
             ELSE [to |-> "respond",
                   with |-> jsonError(400, "JSON must include data or url")]
        ELSE IF read = "rejects" \/ q.body.size = 0
             THEN [to |-> "respond",
                   with |-> jsonError(400, "No file provided")]
             ELSE IF TooLarge(q.body.size)
             THEN [to |-> "respond",
                   with |-> jsonError(413, "File too large")]
             ELSE [to |-> "analyze", buffer |-> Sized(q.body.size)]

\* where the composite-score handler stands after its input parsing; it
\* only ever looks at req.body
CompositeInput(q) ==
    LET k == q.body.kind
    IN  IF ~q.parsed
        THEN [to |-> "respond",
              with |-> [status |-> 400, body |-> [error |-> "Missing JSON body"]]]
        ELSE IF k = "data" /\ q.body.size > 0
        THEN IF TooLarge(q.body.size)
             THEN [to |-> "respond",
                   with |-> [status |-> 413,
                             body |-> [error |-> "File too large (12MB)"]]]
             ELSE [to |-> "analyze", buffer |-> Sized(q.body.size)]
        ELSE IF k = "url" THEN [to |-> "download"]
        ELSE [to |-> "respond",
              with |-> [status |-> 400,
                        body |-> [error |-> "Provide data (base64) or url"]]]

\* what the download of body.url may do.  enterprise-1.0 first probes the
\* url with safeFetchJson (20 s timeout) and then downloads it with a plain
\* fetch; the composite-score handler only does the plain fetch.
DownloadOutcomes ==
    { [kind |-> k, size |-> 0] :
          k \in {"probeFails", "throws", "notOk", "unreadable", "never"} }
        \cup { [kind |-> "resolves", size |-> n] : n \in Sizes }

EnterpriseDownloaded(out) ==
    IF out.kind = "probeFails"
    THEN [to |-> "respond",
          with |-> jsonError(400, "Failed to fetch remote URL")]
    ELSE IF out.kind = "throws"
    THEN [to |-> "respond", with |-> jsonError(400, "Remote fetch error")]
    ELSE IF out.kind = "notOk"
    THEN [to |-> "respond", with |-> jsonError(400, "Remote fetch failed")]
    ELSE IF out.kind = "unreadable"
    THEN [to |-> "respond",
          with |-> jsonError(400, "Failed to read remote binary")]
    ELSE IF out.kind = "never" THEN [to |-> "hung"]
    ELSE IF TooLarge(out.size)
    THEN [to |-> "respond", with |-> jsonError(413, "File too large")]
    ELSE [to |-> "analyze", buffer |-> Sized(out.size)]

CompositeDownloaded(out) ==
    IF out.kind \in {"throws", "unreadable"}
    THEN [to |-> "respond",
          with |-> [status |-> 500, body |-> [error |-> "String(err)"]]]
    ELSE IF out.kind = "notOk"
    THEN [to |-> "respond",
          with |-> [status |-> 400, body |-> [error |-> "Failed to fetch URL"]]]
    ELSE IF out.kind = "never" THEN [to |-> "hung"]
    ELSE IF TooLarge(out.size)
    THEN [to |-> "respond",
          with |-> [status |-> 413,
                    body |-> [error |-> "File too large (12MB)"]]]
    ELSE [to |-> "analyze", buffer |-> Sized(out.size)]

\* the report of enterprise-1.0; safeFetchJson never throws, so a failing
\* classifier or backend only shows inside the report
EnterpriseReport(b, key, hf, ext) ==
    [ok |-> TRUE,
     metadata |-> [size |-> b.length],
     hf |-> IF ~key THEN "no hf key configured"
            ELSE IF hf.kind = "array" THEN "json" ELSE "hf failure",
     external |-> ext]

\* aiScore of the composite-score handler: hfRaw[0].score if it is truthy
CompositeAiScore(key, hf) ==
    IF key /\ hf.kind = "array" /\ Len(hf.items) > 0 THEN hf.items[1].score
    ELSE 0

\* Math.round((aiScore * 0.8 + 0.5 * 0.2) * 100) / 100, in thousandths
CompositeScore(aiScore) == ((aiScore * 8 + 1000 + 50) \div 100) * 10

CompositeResult(key, hf) ==
    [score |-> CompositeScore(CompositeAiScore(key, hf)),
     breakdown |-> [ai |-> CompositeAiScore(key, hf), heuristics |-> 500]]

\* jsonResponse: res.statusCode = status; res.end(JSON.stringify(body)).
\* In the upload handlers results[r] is the list of the responses written
\* for request r, and metadata[r] the state of the storage webhook.
Write(r, status, body) ==
    /\ Respond(r, status, body)
    /\ results' = [results EXCEPT ![r] =
           Append(@, [status |-> status, body |-> body])]

\* the stage an upload handler moves to
MoveTo(r, next) ==
    IF next.to = "respond"
    THEN /\ Write(r, next.with.status, next.with.body)
         /\ UNCHANGED buffer
    ELSE IF next.to = "analyze"
    THEN /\ buffer' = [buffer EXCEPT ![r] = next.buffer]
         /\ pc' = [pc EXCEPT ![r] = "analyze"]
         /\ UNCHANGED <<response, results>>
    ELSE /\ pc' = [pc EXCEPT ![r] = next.to]
         /\ UNCHANGED <<buffer, response, results>>

UploadArrive(r, q) ==
    /\ pc[r] = "idle"
    /\ req' = [req EXCEPT ![r] = q]
    /\ pc' = [pc EXCEPT ![r] = "start"]
    /\ UNCHANGED <<workerSecret, service, hfKey, buffer, metadata, hasCamera, results,
                   cascade, response, qResponse, qScore>>

\* OPTIONS, methods other than POST, and the health check of enterprise-1.0
UploadGate(r) ==
    /\ pc[r] = "start"
    /\ req[r].method # "POST"
    /\ IF service = COMPOSITE
       THEN Write(r, 405, [error |-> "POST only"])
       ELSE IF req[r].method = "OPTIONS" THEN Write(r, 204, [ended |-> TRUE])
       ELSE IF req[r].method = "GET"
       THEN Write(r, 200, [ok |-> TRUE, service |-> "forensic-service",
                           version |-> ENTERPRISE])
       ELSE Write(r, 405, [ok |-> FALSE, error |-> "Only POST allowed"])
    /\ UNCHANGED <<workerSecret, service, hfKey, req, buffer, metadata, hasCamera,
                   cascade, qResponse, qScore>>

\* input parsing up to the size check
UploadParse(r) ==
    /\ pc[r] = "start"
    /\ req[r].method = "POST"
    /\ MoveTo(r, IF service = COMPOSITE THEN CompositeInput(req[r])
                 ELSE EnterpriseInput(req[r]))
    /\ UNCHANGED <<workerSecret, service, hfKey, req, metadata, hasCamera,
                   cascade, qResponse, qScore>>

\* the download of body.url settles (or never does), then the size check
UploadDownload(r, out) ==
    /\ pc[r] = "download"
    /\ service = COMPOSITE => out.kind # "probeFails"
    /\ MoveTo(r, IF service = COMPOSITE THEN CompositeDownloaded(out)
                 ELSE EnterpriseDownloaded(out))
    /\ UNCHANGED <<workerSecret, service, hfKey, req, metadata, hasCamera,
                   cascade, qResponse, qScore>>

Sink(state) == [kind |-> "sink", state |-> state]

\* the classifier call and, in enterprise-1.0, the external backend
\* settle; enterprise-1.0 starts the POST to STORAGE_WEBHOOK_URL, when one
\* is configured, without awaiting it; the handler answers 200
UploadAnalyze(r, hf, ext, sink) ==
    /\ pc[r] = "analyze"
    /\ IF service = COMPOSITE
       THEN /\ ext = "unset" /\ ~sink
            /\ Write(r, 200, CompositeResult(hfKey, hf))
       ELSE Write(r, 200, EnterpriseReport(buffer[r], hfKey, hf, ext))
    /\ metadata' = [metadata EXCEPT ![r] =
           Sink(IF sink THEN "pending" ELSE "unset")]
    /\ UNCHANGED <<workerSecret, service, hfKey, req, buffer, hasCamera,
                   cascade, qResponse, qScore>>

\* mutant: a failed webhook is reported to the client
UploadSink_reports(r, ok) ==
    /\ metadata[r] = Sink("pending")
    /\ metadata' = [metadata EXCEPT ![r] =
           Sink(IF ok THEN "delivered" ELSE "failed")]
    /\ IF ok THEN UNCHANGED <<pc, response, results>>
       ELSE Write(r, 500, jsonError(500, "Internal Server Error").body)
    /\ UNCHANGED <<workerSecret, service, hfKey, req, buffer, hasCamera,
                   cascade, qResponse, qScore>>

\* the POST to the webhook settles; its rejection is swallowed
UploadSink(r, ok) ==
    /\ metadata[r] = Sink("pending")
    /\ metadata' = [metadata EXCEPT ![r] =
           Sink(IF ok THEN "delivered" ELSE "failed")]
    /\ UNCHANGED <<workerSecret, service, hfKey, pc, req, buffer, hasCamera, results,
                   cascade, response, qResponse, qScore>>

InitUpload ==
    /\ service \in UploadServices
    /\ hfKey \in BOOLEAN
    /\ workerSecret = Unset
    /\ Idle
    /\ qResponse = [kind |-> "none"]
    /\ qScore = NoScore

NextUpload ==
    \/ \E q \in UploadRequests : UploadArrive("A", q)
    \/ UploadGate("A")
    \/ UploadParse("A")
    \/ \E out \in DownloadOutcomes : UploadDownload("A", out)
    \/ \E hf \in PairResponses, ext \in {"unset", "answered", "failed"},
          sink \in BOOLEAN :
           UploadAnalyze("A", hf, ext, sink)
    \/ \E ok \in BOOLEAN : UploadSink("A", ok)

SpecUpload == InitUpload /\ [][NextUpload]_vars

\* ------------------------------------------------------------------------
\* runForensicPipeline: four stages, each in its own try/catch, then the
\* scoring.  A stage outcome is what the awaited call does; the promise of
\* the pipeline is kept in response[r].body, the stages that ran and the
\* ones that threw in metadata[r].
\* ------------------------------------------------------------------------
PIPELINE == "runForensicPipeline"

\* a JSON number that may be missing or null
Some(v) == [has |-> TRUE, v |-> v]
None == [has |-> FALSE, v |-> 0]

\* a ?? b
Coalesce(a, b) == IF a.has THEN a ELSE b

AiObject(mp, fg, sc, ja) ==
    [kind |-> "object", manipulation_probability |-> mp, forgery |-> fg,
     score |-> sc, jpeg_artifacts |-> ja]

\* what callHFAI may do: fetch rejects, the answer is not ok (it throws),
\* or resp.json() resolves with null or with an object
InferenceOutcomes ==
    { [kind |-> "rejects"], [kind |-> "notOk"], [kind |-> "null"],
      AiObject(Some(870), None, None, None),
      AiObject(None, Some(640), None, Some(120)),
      AiObject(None, None, Some(0), None),
      AiObject(None, None, None, None) }

\* generateScore(ai)
generateScore(ai) ==
    IF ai.kind = "null" THEN 500
    ELSE Coalesce(ai.manipulation_probability,
             Coalesce(ai.forgery, Coalesce(ai.score, Some(500)))).v

\* report.ai?.jpeg_artifacts ?? 0.3
CompressionSuspicion(ai) ==
    IF ai.kind = "null" THEN 300 ELSE Coalesce(ai.jpeg_artifacts, Some(300)).v

\* const report = { ok: true, meta: {}, ai: {}, scores: {}, errors: [] }
NewReport ==
    [ok |-> TRUE,
     meta |-> [sha256 |-> "absent", fileType |-> "absent", exif |-> "absent"],
     ai |-> AiObject(None, None, None, None),
     scores |-> [set |-> FALSE, forgeryScore |-> 0, metadataIntegrity |-> 0,
                 compressionSuspicion |-> 0],
     errors |-> <<>>]

Pending(report) == [status |-> 0, body |-> [state |-> "pending", report |-> report]]
Report(r) == response[r].body.report

\* stage s ran, with or without a throw, and the report became rep
Stage(r, s, threw, rep, next) ==
    /\ response' = [response EXCEPT ![r] = Pending(rep)]
    /\ metadata' = [metadata EXCEPT ![r] =
           [kind |-> "stages", ran |-> Append(metadata[r].ran, s),
            failed |-> IF threw THEN metadata[r].failed \cup {s}
                       ELSE metadata[r].failed]]
    /\ pc' = [pc EXCEPT ![r] = next]
    /\ UNCHANGED <<workerSecret, service, hfKey, req, buffer, hasCamera, results, cascade,
                   qResponse, qScore>>

\* runForensicPipeline(buffer) is called
PipelineCall(r) ==
    /\ pc[r] = "idle"
    /\ response' = [response EXCEPT ![r] = Pending(NewReport)]
    /\ metadata' = [metadata EXCEPT ![r] =
           [kind |-> "stages", ran |-> <<>>, failed |-> {}]]
    /\ pc' = [pc EXCEPT ![r] = "fingerprint"]
    /\ UNCHANGED <<workerSecret, service, hfKey, req, buffer, hasCamera, results, cascade,
                   qResponse, qScore>>

\* 1. SHA256 fingerprint
Fingerprint(r, threw) ==
    /\ pc[r] = "fingerprint"
    /\ Stage(r, "fingerprint", threw,
             IF threw
             THEN [Report(r) EXCEPT
                      !.errors = Append(@, "Fingerprinting failed")]
             ELSE [Report(r) EXCEPT !.meta.sha256 = "hex"],
             "fileType")

\* 2. File type detection; out is "throws", "undefined" or a type
FileType(r, out) ==
    /\ pc[r] = "fileType"
    /\ Stage(r, "fileType", out = "throws",
             IF out = "throws"
             THEN [Report(r) EXCEPT
                      !.errors = Append(@, "File type couldn't be read")]
             ELSE [Report(r) EXCEPT
                      !.meta.fileType = IF out = "undefined" THEN "null"
                                        ELSE out],
             "exif")

\* 3. EXIF extraction; the extractor of this file is a stub that a
\* deployment replaces
ExtractEXIF(r, threw) ==
    /\ pc[r] = "exif"
    /\ Stage(r, "exif", threw,
             IF threw
             THEN [Report(r) EXCEPT
                      !.meta.exif = "null",
                      !.errors = Append(@, "EXIF extraction failed")]
             ELSE [Report(r) EXCEPT !.meta.exif = "object"],
             "ai")

\* 4. AI Forgery Detection
Inference(r, out) ==
    /\ pc[r] = "ai"
    /\ LET threw == out.kind \in {"rejects", "notOk"}
       IN  Stage(r, "ai", threw,
                 IF threw
                 THEN [Report(r) EXCEPT
                          !.ai = [kind |-> "null"],
                          !.errors = Append(@, "AI model inference failed")]
                 ELSE [Report(r) EXCEPT !.ai = out],
                 "scoring")

\* 5. Scoring system; return report
Scoring(r) ==
    /\ pc[r] = "scoring"
    /\ response' = [response EXCEPT ![r] =
           [status |-> 0,
            body |-> [state |-> "resolved",
                      report |-> [Report(r) EXCEPT !.scores =
                          [set |-> TRUE,
                           forgeryScore |-> generateScore(Report(r).ai),
                           metadataIntegrity |->
                               IF Report(r).meta.exif = "object"
                               THEN 920 ELSE 400,
                           compressionSuspicion |->
                               CompressionSuspicion(Report(r).ai)]]]]]
    /\ pc' = [pc EXCEPT ![r] = "done"]
    /\ UNCHANGED <<workerSecret, service, hfKey, req, buffer, metadata, hasCamera, results,
                   cascade, qResponse, qScore>>

InitPipeline ==
    /\ service = PIPELINE
    /\ hfKey \in BOOLEAN
    /\ workerSecret = Unset
    /\ Idle
    /\ qResponse = [kind |-> "none"]
    /\ qScore = NoScore

NextPipeline ==
    \E r \in Requests :
        \/ PipelineCall(r)
        \/ \E threw \in BOOLEAN : Fingerprint(r, threw)
        \/ \E out \in {"throws", "undefined", "image/jpeg"} : FileType(r, out)
        \/ \E threw \in BOOLEAN : ExtractEXIF(r, threw)
        \/ \E out \in InferenceOutcomes : Inference(r, out)
        \/ Scoring(r)

SpecPipeline == InitPipeline /\ [][NextPipeline]_vars

\* ------------------------------------------------------------------------
\* The handlers behind a shared secret: the express service (model
\* "forensic-v1"), the EXIF and pHash function, and mediaproof-forensic.
\* buffer[r] is the decoded media, metadata[r] what the analysis extracted
\* and results[r] the list of the external calls made for request r.
\* ------------------------------------------------------------------------
EXPRESS_V1 == "forensic-v1"
PHASH_FN == "exif-phash"
MEDIAPROOF == "mediaproof-forensic"
SecretServices == {EXPRESS_V1, PHASH_FN, MEDIAPROOF}

\* values of process.env.WORKER_SECRET and of the x-worker-secret header
Secrets == {Unset, "", "s3cret"}
Headers == {Unset, "", "s3cret", "guess"}

\* const REQUIRED_SECRET = process.env.WORKER_SECRET;
\* const workerSecret = process.env.WORKER_SECRET || "";
Required(svc, env) ==
    IF svc = EXPRESS_V1 THEN env ELSE IF env = Unset THEN "" ELSE env

\* mutant: the test for a missing header is left out
Authorized_equalOnly(incoming, required) == incoming = required

\* !(!incoming || incoming !== WORKER_SECRET)
Authorized(incoming, required) ==
    incoming \notin {Unset, ""} /\ incoming = required

\* body: what req.body holds; "incomplete" lacks a required field
SecretRequests ==
    [method : {"GET", "POST", "PUT"}, secret : Headers,
     body : {"undefined", "incomplete", "valid"}]

\* the answer before the secret is read, if there is one: the health
\* check, the method check of the EXIF and pHash function, and the 404
\* of express for a route that is not registered
BeforeSecret(svc, q) ==
    IF q.method = "GET"
    THEN [status |-> 200,
          body |-> IF svc = PHASH_FN THEN [ok |-> TRUE]
                   ELSE [ok |-> TRUE, service |->
                            IF svc = EXPRESS_V1 THEN "forensic-service"
                            ELSE MEDIAPROOF]]
    ELSE IF q.method # "POST" /\ svc = PHASH_FN
    THEN [status |-> 405, body |-> [error |-> "Method Not Allowed"]]
    ELSE IF q.method # "POST" /\ svc = EXPRESS_V1
    THEN [status |-> 404, body |-> [error |-> "Cannot PUT"]]
    ELSE NoResponse

Unauthorized(svc) ==
    [status |-> 401,
     body |-> IF svc = EXPRESS_V1 THEN [ok |-> FALSE, error |-> "UNAUTHORIZED"]
              ELSE IF svc = PHASH_FN
              THEN [error |-> "Unauthorized - invalid worker secret"]
              ELSE [error |-> "Unauthorized: invalid worker secret"]]

BadPayload(svc) ==
    [status |-> 400,
     body |-> IF svc = EXPRESS_V1 THEN [ok |-> FALSE, error |-> "BAD_PAYLOAD"]
              ELSE IF svc = PHASH_FN
              THEN [error |-> "Missing fields: filename, mimetype, data required"]
              ELSE [error |-> "Invalid payload"]]

SecretArrive(r, q) ==
    /\ pc[r] = "idle"
    /\ req' = [req EXCEPT ![r] = q]
    /\ pc' = [pc EXCEPT ![r] = "start"]
    /\ UNCHANGED <<workerSecret, service, hfKey, buffer, metadata, hasCamera,
                   results, cascade, response, qResponse, qScore>>

\* health check, method check, secret check
SecretGate(r) ==
    /\ pc[r] = "start"
    /\ LET early == BeforeSecret(service, req[r])
       IN  IF early # NoResponse
           THEN Respond(r, early.status, early.body)
           ELSE /\ ~Authorized(req[r].secret, Required(service, workerSecret))
                /\ Respond(r, Unauthorized(service).status,
                           Unauthorized(service).body)
    /\ UNCHANGED <<workerSecret, service, hfKey, req, buffer, metadata,
                   hasCamera, results, cascade, qResponse, qScore>>

\* the secret matched: payload validation, then Buffer.from(..., "base64")
SecretAdmit(r) ==
    /\ pc[r] = "start"
    /\ BeforeSecret(service, req[r]) = NoResponse
    /\ Authorized(req[r].secret, Required(service, workerSecret))
    /\ IF req[r].body # "valid"
       THEN /\ Respond(r, BadPayload(service).status, BadPayload(service).body)
            /\ UNCHANGED buffer
       ELSE /\ buffer' = [buffer EXCEPT ![r] = Sized(1000)]
            /\ pc' = [pc EXCEPT ![r] = "analyze"]
            /\ UNCHANGED response
    /\ UNCHANGED <<workerSecret, service, hfKey, req, metadata, hasCamera,
                   results, cascade, qResponse, qScore>>

\* the analysis: Math.random() in the express service (d, in
\* thousandths), exifr and the pHash in the other two, and the
\* HuggingFace call of mediaproof-forensic; failures land in the report
SecretAnalyze(r, d, exif, hf) ==
    /\ pc[r] = "analyze"
    /\ IF service = EXPRESS_V1
       THEN /\ exif = "none" /\ hf = "none"
            /\ Respond(r, 200,
                       [ok |-> TRUE, authenticityScore |-> (d * 4) \div 10 + 600,
                        manipulationsDetected |-> (d * 4) \div 10 + 600 < 500])
            /\ UNCHANGED <<metadata, results>>
       ELSE /\ d = 0 /\ exif # "none"
            /\ hf = "none" <=> service = PHASH_FN
            /\ metadata' = [metadata EXCEPT ![r] =
                   [kind |-> "exif", outcome |-> exif]]
            /\ results' = [results EXCEPT ![r] =
                   IF service = MEDIAPROOF /\ hfKey THEN <<hf>> ELSE <<>>]
            /\ Respond(r, 200,
                       IF service = PHASH_FN
                       THEN [ok |-> TRUE, size_bytes |-> buffer[r].length,
                             exif |-> exif]
                       ELSE [status |-> "analysis_complete", exif |-> exif,
                             huggingface |-> IF hfKey THEN hf ELSE "disabled"])
    /\ UNCHANGED <<workerSecret, service, hfKey, req, buffer, hasCamera,
                   cascade, qResponse, qScore>>

InitSecret ==
    /\ service \in SecretServices
    /\ hfKey \in BOOLEAN
    /\ workerSecret \in Secrets
    /\ Idle
    /\ qResponse = [kind |-> "none"]
    /\ qScore = NoScore

NextSecret ==
    \E r \in Requests :
        \/ \E q \in SecretRequests : SecretArrive(r, q)
        \/ SecretGate(r)
        \/ SecretAdmit(r)
        \/ \E d \in {0, 500, 999}, exif \in {"none", "tags", "throws"},
              hf \in {"none", "output", "error"} :
               SecretAnalyze(r, d, exif, hf)

SpecSecret == InitSecret /\ [][NextSecret]_vars

\* ------------------------------------------------------------------------
\* Normalisation of one classifier response
\* ------------------------------------------------------------------------
MaxItems == 2

QueryLabels ==
    { Label_artificial, Label_human, Label_REAL, Label_FAKE, Label_ai,
      Label_AIGenerated, Label_synthetic, Label_CGI, Label_nsfw,
      Label_normal }

QueryItems == { Item(l, c) : l \in QueryLabels, c \in {100, 900} }

\* the list responses of up to MaxItems (label, confidence) pairs
QueryResponses ==
    { List(items) : items \in SeqsUpTo(QueryItems, MaxItems) \ {<<>>} }

InitQuery ==
    /\ service = TITANIUM_V3
    /\ hfKey = TRUE
    /\ workerSecret = Unset
    /\ Idle
    /\ qResponse \in QueryResponses
    /\ qScore = NoScore

\* the council's queryModel and the cascade loop read the response
Normalize ==
    /\ ~qScore.done
    /\ qScore' = [done |-> TRUE,
                  council |-> queryModel(qResponse),
                  cascade |-> CascadeScore(qResponse.items)]
    /\ UNCHANGED <<workerSecret, service, hfKey, pc, req, buffer, metadata, hasCamera,
                   results, cascade, response, qResponse>>

NextQuery == Normalize

SpecQuery == InitQuery /\ [][NextQuery]_vars

\* ------------------------------------------------------------------------
\* Vocabulary of the properties
\* ------------------------------------------------------------------------
Body(r) == response[r].body
HasVerdict(r) == response[r].status # 0 /\ "verdict" \in DOMAIN Body(r)
\* request r was answered with the report of the given handler
Reported(r, svc) ==
    response[r].status = 200 /\ "service" \in DOMAIN Body(r)
        /\ Body(r).service = svc
Risk(r) == Body(r).verdict.aiProbability
Method(r) == Body(r).verdict.detection_method
HasSuffix(m) == m[Len(m)] = " + MISSING_ORIGIN"
\* the largest score the classifiers of request r returned, 0 without any
MaxScore(r) ==
    IF \E i \in 1..Len(results[r]) : results[r][i].score > 0
    THEN CHOOSE m \in {results[r][i].score : i \in 1..Len(results[r])} :
             \A i \in 1..Len(results[r]) : results[r][i].score <= m
    ELSE 0

\* ------------------------------------------------------------------------
\* C1: in every response that carries a verdict, aiProbability lies in
\* [0, 1], whatever boosts, escalations or floors were applied (classifier
\* confidences are in [0, 1])
\* ------------------------------------------------------------------------
C1_RiskInUnitInterval ==
    \A r \in Requests : HasVerdict(r) => Risk(r) >= 0 /\ Risk(r) <= 1000

\* nuclear-v1 boosted a risk up to its cap of 0.99
C1_Witness ==
    \E r \in Requests :
        Reported(r, NUCLEAR_V1) /\ ~hasCamera[r] /\ MaxScore(r) = 1000
            /\ Risk(r) = 990

NormalPhysics(r) ==
    LET n == Body(r).details.noiseAnalysis
    IN  /\ ~n.entropy.nan /\ n.entropy.v >= 6000 /\ n.entropy.v <= 7900
        /\ ~n.variance.nan /\ n.variance.v >= 2000

C4_Original ==
    \A r \in Requests :
        Reported(r, TITANIUM_V3) /\ MaxScore(r) = 0 /\ NormalPhysics(r)
            /\ ~hasCamera[r]
        => Risk(r) = 450 /\ Method(r) = <<"HEURISTIC_UNCERTAINTY">>

\* C4 amended: ... and the buffer does not start with the PNG signature and
\* the advanced forensics find natural lighting and an ELA mismatch of at
\* most 0.15
NoAdvancedFinding(r) ==
    LET a == Body(r).details.advancedForensics
    IN  a.lighting = "NATURAL" /\ ~Gt(a.ela_score, 150)

C4_UncertaintyFloor ==
    \A r \in Requests :
        Reported(r, TITANIUM_V3) /\ MaxScore(r) = 0 /\ NormalPhysics(r)
            /\ ~hasCamera[r] /\ ~isPng(buffer[r]) /\ NoAdvancedFinding(r)
        => Risk(r) = 450 /\ Method(r) = <<"HEURISTIC_UNCERTAINTY">>

\* the floor was applied to a request whose every detector stayed silent
C4_Witness ==
    \E r \in Requests :
        /\ Reported(r, TITANIUM_V3) /\ MaxScore(r) = 0 /\ NormalPhysics(r)
        /\ ~hasCamera[r] /\ ~isPng(buffer[r]) /\ NoAdvancedFinding(r)
        /\ Len(results[r]) > 0
        /\ Risk(r) = 450

\* ------------------------------------------------------------------------
\* C5: a buffer with the PNG signature, without camera metadata and with
\* all classifier scores 0 is reported with risk at least 0.95 and the
\* FORMAT_ANOMALY method, whatever entropy, variance and advanced forensics
\* ------------------------------------------------------------------------
C5_FormatTrap ==
    \A r \in Requests :
        /\ Reported(r, TITANIUM_V3) \/ Reported(r, TITANIUM_V1)
        /\ isPng(buffer[r]) /\ ~hasCamera[r] /\ MaxScore(r) = 0
        => /\ Risk(r) >= 950
           /\ Method(r) = IF service = TITANIUM_V3
                          THEN <<"FORMAT_ANOMALY (PNG_NO_EXIF)">>
                          ELSE <<"FORMAT_ANOMALY">>

\* the trap won against the strongest physics and advanced findings
C5_Witness ==
    \E r \in Requests :
        /\ Reported(r, TITANIUM_V3)
        /\ isPng(buffer[r]) /\ ~hasCamera[r] /\ MaxScore(r) = 0
        /\ Body(r).details.aiArtifacts.physics_score = 900
        /\ Body(r).details.aiArtifacts.advanced_risk = 900
        /\ Method(r) = <<"FORMAT_ANOMALY (PNG_NO_EXIF)">>

\* ------------------------------------------------------------------------
\* C6: with camera metadata present neither the missing-origin escalation
\* nor the uncertainty floor is applied: the method carries no
\* MISSING_ORIGIN suffix and is not HEURISTIC_UNCERTAINTY, and the risk is
\* the largest of the component scores (in nuclear-v1: neither the boost
\* nor the floor changes the largest component score)
\* ------------------------------------------------------------------------
C6_CameraDampening ==
    \A r \in Requests :
        hasCamera[r] =>
            /\ Reported(r, TITANIUM_V3) =>
                   LET a == Body(r).details.aiArtifacts
                   IN  /\ ~HasSuffix(Method(r))
                       /\ Method(r) # <<"HEURISTIC_UNCERTAINTY">>
                       /\ a.council_max = MaxScore(r)
                       /\ Risk(r) = Max2(Max2(a.council_max, a.physics_score),
                                         Max2(a.format_risk, a.advanced_risk))
            /\ Reported(r, NUCLEAR_V1) =>
                   Risk(r) = Max2(MaxScore(r),
                                  Body(r).details.aiArtifacts.physics_score)

\* a weak classifier signal with camera metadata stayed as it was, where
\* the escalation would have raised it
C6_Witness ==
    \E r \in Requests :
        /\ Reported(r, TITANIUM_V3) /\ hasCamera[r]
        /\ MaxScore(r) = 200 /\ Risk(r) = 200
        /\ Method(r) = <<"UNCERTAIN">>

\* ------------------------------------------------------------------------
\* C7 as stated: for an empty input buffer without camera metadata and
\* without classifier evidence, titanium-v3-advanced reports entropy 0,
\* variance 0, risk 0.45, ORGANIC and HEURISTIC_UNCERTAINTY, and no NaN
\* ------------------------------------------------------------------------
C7_EmptyInput ==
    \A r \in Requests :
        Reported(r, TITANIUM_V3) /\ buffer[r] = EmptyBuffer /\ ~hasCamera[r]
            /\ MaxScore(r) = 0
        => /\ Body(r).details.noiseAnalysis.entropy = Num(0)
           /\ Body(r).details.noiseAnalysis.variance = Num(0)
           /\ ~Body(r).details.advancedForensics.ela_score.nan
           /\ Risk(r) = 450
           /\ Body(r).verdict.classification = "ORGANIC"
           /\ Method(r) = <<"HEURISTIC_UNCERTAINTY">>

\* ------------------------------------------------------------------------
\* C8 as stated: in titanium-v3-advanced, one classifier answering
\* artificial 0.92 (the others contributing 0) with camera metadata present
\* gives risk exactly 0.92, SYNTHETIC, a method starting with NEURAL_NET and
\* no MISSING_ORIGIN suffix, whatever entropy, variance and advanced
\* forensics
\* ------------------------------------------------------------------------
OneClassifierSays920(r) ==
    /\ \E i \in 1..Len(results[r]) :
          /\ results[r][i].score = 920
          /\ \A j \in 1..Len(results[r]) : j # i => results[r][j].score = 0

C8_Original ==
    \A r \in Requests :
        Reported(r, TITANIUM_V3) /\ hasCamera[r] /\ OneClassifierSays920(r)
        => /\ Risk(r) = 920
           /\ Body(r).verdict.classification = "SYNTHETIC"
           /\ Method(r)[1] = "NEURAL_NET ("
           /\ ~HasSuffix(Method(r))

\* C8 amended: ... the method starts with NEURAL_NET unless the advanced
\* forensics find both flat lighting and an ELA mismatch above 0.15
\* (advanced risk 0.9), in which case it is ADVANCED_FORENSICS (ELA/LIGHTING)
C8_CameraBackedNeural ==
    \A r \in Requests :
        Reported(r, TITANIUM_V3) /\ hasCamera[r] /\ OneClassifierSays920(r)
        => /\ Risk(r) = 920
           /\ Body(r).verdict.classification = "SYNTHETIC"
           /\ ~HasSuffix(Method(r))
           /\ IF Body(r).details.aiArtifacts.advanced_risk > 800
              THEN Method(r) = <<"ADVANCED_FORENSICS (ELA/LIGHTING)">>
              ELSE Method(r)[1] = "NEURAL_NET ("

\* the classifier was named as the source although physics found 0.9
C8_Witness ==
    \E r \in Requests :
        /\ Reported(r, TITANIUM_V3) /\ hasCamera[r] /\ OneClassifierSays920(r)
        /\ Body(r).details.aiArtifacts.physics_score = 900
        /\ Method(r) = <<"NEURAL_NET (", "AI-image-detector", ")">>
        /\ Risk(r) = 920

\* ------------------------------------------------------------------------
\* C9 as stated: two requests that received the same request body, the
\* same bytes, the same metadata result and the same classifier scores get
\* the same verdict, whichever handler is deployed: the verdict depends on
\* no random draw and on nothing another request left behind
\* ------------------------------------------------------------------------
\* what a response says about the media: the verdict object of the fusion
\* handlers, score and summary of the simulated one
VerdictOf(r) ==
    IF "verdict" \in DOMAIN Body(r) THEN Body(r).verdict
    ELSE IF "score" \in DOMAIN Body(r)
    THEN [score |-> Body(r).score, summary |-> Body(r).summary]
    ELSE Body(r)

SameEvidence(r1, r2) ==
    /\ pc[r1] = "done" /\ pc[r2] = "done"
    /\ req[r1] = req[r2]
    /\ buffer[r1] = buffer[r2]
    /\ metadata[r1] = metadata[r2]
    /\ results[r1] = results[r2]
    /\ cascade[r1] = cascade[r2]

C9_Original ==
    \A r1, r2 \in Requests :
        SameEvidence(r1, r2)
        => response[r1].status = response[r2].status
               /\ VerdictOf(r1) = VerdictOf(r2)

\* the fusion handlers taken alone are deterministic
C9_FusionDeterministic ==
    service \in FusionServices => C9_Original

\* two fused verdicts on the same evidence
C9_FusionWitness ==
    /\ service = TITANIUM_V3
    /\ SameEvidence("A", "B")
    /\ HasVerdict("A") /\ HasVerdict("B")
    /\ MaxScore("A") = 920

\* ------------------------------------------------------------------------
\* C10 as stated: for a list response, the score is the confidence of the
\* first label containing, in any case, one of artificial, fake, cg, synth,
\* ai; without such a label it is 1 minus the confidence of the first label
\* containing real or human
\* ------------------------------------------------------------------------
ContainsAny(label, words) ==
    \E w \in words : includes(toLowerCase(label), w)

\* i is the first position of items whose label contains one of words
IsFirst(items, i, words) ==
    /\ ContainsAny(items[i].label, words)
    /\ \A j \in 1..(i - 1) : ~ContainsAny(items[j].label, words)

\* score is what the rule with these word lists assigns to items
Normalizes(items, fakeWords, realWords, score) ==
    LET idx == 1..Len(items)
    IN  /\ \A i \in idx :
               IsFirst(items, i, fakeWords) => score = items[i].score
        /\ (\A i \in idx : ~ContainsAny(items[i].label, fakeWords))
           => \A i \in idx :
                  IsFirst(items, i, realWords)
                  => score = 1000 - items[i].score

ARTIFICIAL == <<"a", "r", "t", "i", "f", "i", "c", "i", "a", "l">>

C10_Original ==
    qScore.done
    => /\ Normalizes(qResponse.items, {ARTIFICIAL, FAKE, CG, SYNTH, AI},
                     {REAL, HUMAN}, qScore.council)
       /\ Normalizes(qResponse.items, {ARTIFICIAL, FAKE, CG, SYNTH, AI},
                     {REAL, HUMAN}, qScore.cascade)

\* ------------------------------------------------------------------------
\* C10 amended: the fake-type words are artific, fake, cg and synth in the
\* council handlers and artific, fake and cg in the cascade handler ("ai"
\* is in neither list); a fake-type label anywhere in the list takes
\* priority over a real-type label; a list with neither scores 0
\* ------------------------------------------------------------------------
NeitherScoresZero(items, fakeWords, realWords, score) ==
    (\A i \in 1..Len(items) :
         ~ContainsAny(items[i].label, fakeWords \cup realWords))
    => score = 0

C10_Normalization ==
    qScore.done
    => /\ Normalizes(qResponse.items, {ARTIFIC, FAKE, CG, SYNTH},
                     {REAL, HUMAN}, qScore.council)
       /\ NeitherScoresZero(qResponse.items, {ARTIFIC, FAKE, CG, SYNTH},
                            {REAL, HUMAN}, qScore.council)
       /\ Normalizes(qResponse.items, {ARTIFIC, FAKE, CG},
                     {REAL, HUMAN}, qScore.cascade)
       /\ NeitherScoresZero(qResponse.items, {ARTIFIC, FAKE, CG},
                            {REAL, HUMAN}, qScore.cascade)

\* a fake-type label listed after a real-type one decided the score
C10_Witness ==
    /\ qScore.done
    /\ qResponse.items
           = <<Item(Label_human, 900), Item(Label_artificial, 100)>>
    /\ qScore.council = 100
    /\ qScore.cascade = 100

\* ------------------------------------------------------------------------
\* C11: in the council handlers, whichever classifier calls throw, return
\* a body that is not JSON or return something that is not a list, the
\* request ends with HTTP 200 and a fused verdict; the model score used is
\* the largest score of the classifiers that succeeded (0 if none did) and
\* the model named is one that succeeded with that score
\* ------------------------------------------------------------------------
\* the largest score among the classifiers of r that returned a list
SucceededMax(r) ==
    LET ok == {i \in 1..Len(results[r]) : ~results[r][i].failed}
    IN  IF \E i \in ok : results[r][i].score > 0
        THEN CHOOSE m \in {results[r][i].score : i \in ok} :
                 \A i \in ok : results[r][i].score <= m
        ELSE 0

\* the council of r ran to its end
CouncilEnded(r) ==
    service \in CouncilServices /\ pc[r] = "done" /\ Len(results[r]) > 0

C11_PartialFailure ==
    \A r \in Requests :
        CouncilEnded(r)
        => /\ response[r].status = 200
           /\ HasVerdict(r)
           /\ Body(r).verdict.classification \in {"SYNTHETIC", "ORGANIC"}
           /\ service = TITANIUM_V3
              => Body(r).details.aiArtifacts.council_max = SucceededMax(r)
           /\ LET flagged == Body(r).details.aiArtifacts.model_flagged
              IN  IF SucceededMax(r) = 0 THEN flagged = "None"
                  ELSE \E i \in 1..Len(results[r]) :
                           /\ ~results[r][i].failed
                           /\ results[r][i].score = SucceededMax(r)
                           /\ flagged = MODELS[i]

\* the first classifier failed and the second one decided the score
C11_Witness ==
    \E r \in Requests :
        /\ CouncilEnded(r) /\ service = TITANIUM_V3
        /\ results[r][1].failed /\ ~results[r][2].failed
        /\ Body(r).details.aiArtifacts.council_max = 920
        /\ Body(r).details.aiArtifacts.model_flagged = MODELS[2]

\* ------------------------------------------------------------------------
\* C12 as stated: every request that reached the handler is eventually
\* answered, even when the image host or a classifier never answers
\* ------------------------------------------------------------------------
C12_Original ==
    \A r \in Requests : (pc[r] = "start") ~> (pc[r] = "done")

\* what does hold: a request is answered or is parked at a call that never
\* answers
C12_AnsweredUnlessHung ==
    \A r \in Requests : (pc[r] = "start") ~> (pc[r] \in {"done", "hung"})

\* ------------------------------------------------------------------------
\* C13 as stated: in the handlers that enforce the 12 MB limit, every
\* request whose media is larger than the limit is answered with HTTP 413,
\* whether the media came as base64 in JSON, from a URL or as a raw body
\* read from the stream, and never with another status
\* ------------------------------------------------------------------------
\* the media request r came with (or downloaded) is larger than the limit
Oversized(r) ==
    /\ req[r].method = "POST"
    /\ \/ req[r].body.kind \in {"data", "raw"} /\ req[r].body.size > MAX_BYTES
       \/ buffer[r].kind = "sized" /\ buffer[r].length > MAX_BYTES

C13_Original ==
    \A r \in Requests :
        pc[r] = "done" /\ Oversized(r)
            /\ (service = COMPOSITE => req[r].parsed)
        => response[r].status = 413

\* what does hold: media above the limit is never analysed
C13_NeverAnalysed ==
    \A r \in Requests :
        pc[r] = "done" /\ Oversized(r) => response[r].status # 200

\* ------------------------------------------------------------------------
\* C14 as stated: when the image named by the request cannot be fetched
\* (the fetch rejects, or the host answers with a non-success status), the
\* request is answered with HTTP 400 and carries no verdict; a failing
\* classifier never fails the request
\* ------------------------------------------------------------------------
\* the handler gave up on the download of r's image
FetchFailed(r) ==
    /\ service \in FusionServices
    /\ pc[r] = "done"
    /\ req[r] = [method |-> "POST", body |-> "url"]
    /\ buffer[r] = NoBuffer

C14_Original ==
    \A r \in Requests :
        /\ FetchFailed(r) => response[r].status = 400 /\ ~HasVerdict(r)
        /\ CouncilEnded(r) => response[r].status = 200

\* ------------------------------------------------------------------------
\* C15 as stated: an exception thrown inside a handler is answered with an
\* HTTP 5xx status and an error body, never with HTTP 200
\* ------------------------------------------------------------------------
\* an exception reached the catch block of r's handler: the download threw,
\* or the simulated handler destructured a missing body
Threw(r) ==
    \/ FetchFailed(r)
    \/ /\ service = FBI_V1
       /\ pc[r] = "done"
       /\ req[r] = [method |-> "POST", body |-> "undefined"]

C15_Original ==
    \A r \in Requests :
        Threw(r)
        => /\ response[r].status >= 500 /\ response[r].status <= 599
           /\ "error" \in DOMAIN Body(r)

\* ------------------------------------------------------------------------
\* C16 as stated: every HTTP 200 response to an analysis request carries
\* verdict.aiProbability, verdict.classification, verdict.detection_method,
\* details.aiArtifacts (confidence, detected, model_flagged),
\* details.noiseAnalysis (entropy, variance) and details.metadataDump as an
\* object, also when the metadata extractor finds nothing
\* ------------------------------------------------------------------------
\* r asked a fusion handler for an analysis and was answered 200
Analysed200(r) ==
    /\ service \in FusionServices
    /\ req[r] = [method |-> "POST", body |-> "url"]
    /\ response[r].status = 200

\* JSON.stringify drops a property whose value is undefined
HasMetadataDump(r) ==
    /\ "details" \in DOMAIN Body(r)
    /\ "metadataDump" \in DOMAIN Body(r).details
    /\ Body(r).details.metadataDump.kind = "object"

HasRequiredFields(r) ==
    /\ "verdict" \in DOMAIN Body(r)
    /\ {"aiProbability", "classification", "detection_method"}
           \subseteq DOMAIN Body(r).verdict
    /\ "details" \in DOMAIN Body(r)
    /\ "aiArtifacts" \in DOMAIN Body(r).details
    /\ {"confidence", "detected", "model_flagged"}
           \subseteq DOMAIN Body(r).details.aiArtifacts
    /\ "noiseAnalysis" \in DOMAIN Body(r).details
    /\ {"entropy", "variance"} \subseteq DOMAIN Body(r).details.noiseAnalysis
    /\ HasMetadataDump(r)

C16_Original ==
    \A r \in Requests : Analysed200(r) => HasRequiredFields(r)

\* ------------------------------------------------------------------------
\* C17 as stated: hasCamera is true exactly when the extractor's result has
\* a non-empty Make, Model, ExposureTime or ISO; when the extractor rejects,
\* hasCamera is false and the request goes on
\* ------------------------------------------------------------------------
\* the metadata step of r's council handler is over
MetadataSettled(r) ==
    service \in CouncilServices /\ metadata[r].kind # "none"

AnyCameraField(meta) ==
    /\ meta.kind = "object"
    /\ \E f \in {"Make", "Model", "ExposureTime", "ISO"} : Truthy(meta[f])

C17_Original ==
    \A r \in Requests :
        MetadataSettled(r)
        => /\ hasCamera[r] <=> AnyCameraField(metadata[r])
           /\ pc[r] \in {"council", "done", "hung"}

\* what holds in the two titanium handlers
C17_TitaniumCameraFields ==
    service # NUCLEAR_V1 => C17_Original

\* ------------------------------------------------------------------------
\* C18 as stated: no response carries a number that is not finite; for
\* every buffer, the empty one included, entropy, variance and ELA score
\* of the report are finite numbers
\* ------------------------------------------------------------------------
\* the reports that carry the results of calculatePhysics
ReportsPhysics(r) ==
    Reported(r, TITANIUM_V3) \/ Reported(r, TITANIUM_V1)

C18_Original ==
    \A r \in Requests :
        ReportsPhysics(r)
        => /\ ~Body(r).details.noiseAnalysis.entropy.nan
           /\ ~Body(r).details.noiseAnalysis.variance.nan
           /\ Reported(r, TITANIUM_V3)
              => ~Body(r).details.advancedForensics.ela_score.nan

\* what holds: a buffer with at least one byte yields finite numbers
C18_FiniteUnlessEmpty ==
    \A r \in Requests :
        ReportsPhysics(r) /\ Length(buffer[r]) > 0
        => /\ ~Body(r).details.noiseAnalysis.entropy.nan
           /\ ~Body(r).details.noiseAnalysis.variance.nan
           /\ Reported(r, TITANIUM_V3)
              => ~Body(r).details.advancedForensics.ela_score.nan

\* ------------------------------------------------------------------------
\* C19: when two requests to a fusion handler are interleaved in any order,
\* the response of each is the report computed from its own buffer, its
\* own metadata and its own classifier results, as if it were alone
\* ------------------------------------------------------------------------
\* the report the deployed fusion handler computes from r's own evidence
OwnReport(r) ==
    IF service = CASCADE_V6
    THEN CascadeReport(buffer[r], metadata[r], cascade[r])
    ELSE CouncilReport(service, buffer[r], metadata[r], hasCamera[r],
                       Scores(results[r]))

C19_Isolation ==
    \A r \in Requests :
        service \in FusionServices /\ pc[r] = "done" /\ buffer[r] # NoBuffer
        => response[r] = [status |-> 200, body |-> OwnReport(r)]

\* two interleaved requests with different images got different verdicts
C19_Witness ==
    /\ service = TITANIUM_V3
    /\ pc["A"] = "done" /\ pc["B"] = "done"
    /\ HasVerdict("A") /\ HasVerdict("B")
    /\ buffer["A"] # NoBuffer /\ buffer["B"] # NoBuffer
    /\ buffer["A"] # buffer["B"]
    /\ Len(results["A"]) > 0 /\ Len(results["B"]) > 0
    /\ Risk("A") # Risk("B")

\* ------------------------------------------------------------------------
\* C20 as stated: the reported risk is never below the model score, the
\* physics score or the format risk, and when neither the escalation (in
\* nuclear-v1: the boost) nor the floor fires it equals the largest of
\* these three
\* ------------------------------------------------------------------------
CouncilReported(r) == \E svc \in CouncilServices : Reported(r, svc)

\* the three signals of the claim; nuclear-v1 has no format risk
PhysicsOf(r) == Body(r).details.aiArtifacts.physics_score
FormatOf(r) ==
    IF Reported(r, NUCLEAR_V1) THEN 0
    ELSE Body(r).details.aiArtifacts.format_risk
MaxOfThree(r) == Max2(Max2(MaxScore(r), PhysicsOf(r)), FormatOf(r))

\* the escalation, the boost or the floor of the deployed handler fired
Adjusted(r) ==
    IF Reported(r, TITANIUM_V3)
    THEN HasSuffix(Method(r)) \/ Method(r) = <<"HEURISTIC_UNCERTAINTY">>
    ELSE IF Reported(r, TITANIUM_V1)
    THEN MaxScore(r) > 150 /\ ~hasCamera[r]
    ELSE Max2(MaxScore(r), PhysicsOf(r)) > 500 /\ ~hasCamera[r]

AdvancedOf(r) ==
    IF Reported(r, TITANIUM_V3)
    THEN Body(r).details.aiArtifacts.advanced_risk ELSE 0

MaxOfSignals(r) == Max2(MaxOfThree(r), AdvancedOf(r))

Rung(m) ==
    IF m[1] \in {"FORMAT_ANOMALY (PNG_NO_EXIF)", "FORMAT_ANOMALY"}
    THEN "FORMAT_ANOMALY"
    ELSE IF m[1] \in {"PHYSICS_ENGINE (ENTROPY_MISMATCH)", "PHYSICS_ENGINE"}
    THEN "PHYSICS_ENGINE"
    ELSE IF m[1] \in {"NEURAL_NET (", "NEURAL_NET"} THEN "NEURAL_NET"
    ELSE m[1]

Flagged(r) == Body(r).details.aiArtifacts.model_flagged
NamesSource(r) == Len(Method(r)) >= 2 /\ Method(r)[2] = Flagged(r)

StatedRung(r) ==
    IF FormatOf(r) > MaxScore(r) /\ FormatOf(r) > PhysicsOf(r)
    THEN "FORMAT_ANOMALY"
    ELSE IF PhysicsOf(r) > MaxScore(r) THEN "PHYSICS_ENGINE"
    ELSE IF MaxScore(r) > 500 THEN "NEURAL_NET"
    ELSE "UNCERTAIN"

\* the escalation of the titanium handlers, the boost of nuclear-v1
Escalated(r) ==
    IF Reported(r, NUCLEAR_V1)
    THEN Max2(MaxScore(r), PhysicsOf(r)) > 500 /\ ~hasCamera[r]
    ELSE MaxScore(r) > 150 /\ ~hasCamera[r]

C21_Original ==
    \A r \in Requests :
        CouncilReported(r) /\ Method(r) # <<"HEURISTIC_UNCERTAINTY">>
        => /\ Rung(Method(r)) = StatedRung(r)
           /\ Rung(Method(r)) = "NEURAL_NET" => NamesSource(r)
           /\ HasSuffix(Method(r)) <=> Escalated(r)

\* ------------------------------------------------------------------------
\* C21 amended: titanium-v3-advanced has a rung ADVANCED_FORENSICS, taken
\* when advancedRisk > 0.8, between FORMAT_ANOMALY and PHYSICS_ENGINE, and
\* appends the suffix exactly when its escalation fired; nuclear-v1
\* reports NEURAL_NET when modelScore > physicsScore and PHYSICS_ENGINE
\* otherwise; titanium-v1 reports FORMAT_ANOMALY when formatRisk > 0.8
\* and NEURAL_ENSEMBLE otherwise; these two name no source and never
\* append the suffix
\* ------------------------------------------------------------------------
V3Rung(r) ==
    IF FormatOf(r) > MaxScore(r) /\ FormatOf(r) > PhysicsOf(r)
    THEN "FORMAT_ANOMALY"
    ELSE IF AdvancedOf(r) > 800 THEN "ADVANCED_FORENSICS (ELA/LIGHTING)"
    ELSE IF PhysicsOf(r) > MaxScore(r) THEN "PHYSICS_ENGINE"
    ELSE IF MaxScore(r) > 500 THEN "NEURAL_NET"
    ELSE "UNCERTAIN"

C21_MethodAttribution ==
    \A r \in Requests :
        /\ Reported(r, TITANIUM_V3) /\ Method(r) # <<"HEURISTIC_UNCERTAINTY">>
           => /\ Rung(Method(r)) = V3Rung(r)
              /\ Rung(Method(r)) = "NEURAL_NET" => NamesSource(r)
              /\ HasSuffix(Method(r)) <=> Escalated(r)
        /\ Reported(r, NUCLEAR_V1)
           => Method(r) = IF MaxScore(r) > PhysicsOf(r)
                          THEN <<"NEURAL_NET">> ELSE <<"PHYSICS_ENGINE">>
        /\ Reported(r, TITANIUM_V1)
           => Method(r) = IF FormatOf(r) > 800
                          THEN <<"FORMAT_ANOMALY">> ELSE <<"NEURAL_ENSEMBLE">>

\* the advanced forensics took the method from a dominant physics score
C21_Witness ==
    \E r \in Requests :
        /\ Reported(r, TITANIUM_V3)
        /\ Method(r)[1] = "ADVANCED_FORENSICS (ELA/LIGHTING)"
        /\ PhysicsOf(r) > MaxScore(r) /\ PhysicsOf(r) >= FormatOf(r)

\* ------------------------------------------------------------------------
\* C22 as stated: every verdict for content without camera metadata
\* reports an aiProbability of at least 0.10, even when no classifier,
\* physics or format detector fired
\* ------------------------------------------------------------------------
NoProvenance(r) ==
    metadata[r].kind # "none" /\ ~AnyCameraField(metadata[r])

C22_Original ==
    \A r \in Requests :
        service \in FusionServices /\ HasVerdict(r) /\ NoProvenance(r)
        => Risk(r) >= 100

\* what holds: titanium-v3-advanced and nuclear-v1 keep the risk of
\* content without camera metadata at 0.10 or more
C22_FloorWhereImplemented ==
    \A r \in Requests :
        (Reported(r, TITANIUM_V3) \/ Reported(r, NUCLEAR_V1))
            /\ ~hasCamera[r]
        => Risk(r) >= 100

\* ------------------------------------------------------------------------
\* C23: modelScore is the maximum of the classifier scores, 0 without any;
\* model_flagged is the classifier that produced the maximum, the first in
\* configured order on a tie, and "None" exactly when the maximum is 0;
\* both are the same whatever the order in which the calls completed
\* ------------------------------------------------------------------------
\* the first classifier, in configured order, whose score is the maximum
FirstMax(r) ==
    CHOOSE i \in 1..Len(results[r]) :
        /\ results[r][i].score = MaxScore(r)
        /\ \A j \in 1..(i - 1) : results[r][j].score < MaxScore(r)

C23_VoteByConfiguredOrder ==
    \A r \in Requests :
        CouncilReported(r)
        => /\ Reported(r, TITANIUM_V3)
                => Body(r).details.aiArtifacts.council_max = MaxScore(r)
           /\ Flagged(r) = "None" <=> MaxScore(r) = 0
           /\ MaxScore(r) > 0 => Flagged(r) = MODELS[FirstMax(r)]

\* the first two classifiers tie at 0.92: the first is named
C23_Witness ==
    \E r \in Requests :
        /\ CouncilReported(r) /\ Len(results[r]) >= 2
        /\ results[r][1].score = 920 /\ results[r][2].score = 920
        /\ Flagged(r) = MODELS[1]

\* ------------------------------------------------------------------------
\* C24 as stated: a classifier contributes a score of exactly 0 when its
\* call fails on the network, when the endpoint answers with a
\* non-success HTTP status, and when the response has an unrecognised
\* shape or unrecognised labels; without an API key no classifier is
\* called and the model score is 0
\* ------------------------------------------------------------------------
NetworkFailure(resp) == resp.kind = "throws"
NonSuccess(resp) == resp.status \notin 200..299
Unrecognised(resp) ==
    \/ resp.kind = "object"
    \/ /\ resp.kind = "array"
       /\ \A i \in 1..Len(resp.items) :
              ~MatchesFake(resp.items[i].label)
                  /\ ~MatchesReal(resp.items[i].label)

NoCallsWithoutKey(r) ==
    ~hfKey => /\ results[r] = <<>>
              /\ CouncilReported(r) => Flagged(r) = "None" /\ MaxScore(r) = 0

\* the promise of classifier i of request r settles on resp in this step
Settles(r, i, resp) == service \in CouncilServices /\ QueryModel(r, i, resp)

C24_Original ==
    /\ [](\A r \in Requests : NoCallsWithoutKey(r))
    /\ [][\A r \in Requests, i \in 1..NumModels, resp \in StatusResponses :
              Settles(r, i, resp)
                  /\ (NetworkFailure(resp) \/ NonSuccess(resp)
                         \/ Unrecognised(resp))
              => results'[r][i].score = 0]_vars

\* what holds: the score is 0 whenever the call threw or the body was not
\* a list with a recognised label, whatever the status
C24_ZeroWithoutList ==
    /\ [](\A r \in Requests : NoCallsWithoutKey(r))
    /\ [][\A r \in Requests, i \in 1..NumModels, resp \in StatusResponses :
              Settles(r, i, resp)
                  /\ (NetworkFailure(resp) \/ Unrecognised(resp))
              => results'[r][i].score = 0]_vars

\* ------------------------------------------------------------------------
\* C25: the cascade handler queries its classifiers one at a time in queue
\* order, each at most once; a call that throws or answers with an error
\* field is skipped; after the first list response no later classifier
\* is queried and no other score is used; when the queue is exhausted the
\* handler still answers with a verdict, of 0 or the low-entropy fallback
\* 0.45 (the fallback also replaces a used score of 0)
\* ------------------------------------------------------------------------
Tried(r) == cascade[r].tried
LowEntropy(r) == Body(r).details.noiseAnalysis.suspicious
UsedModel(r) == Body(r).details.aiArtifacts.modelUsed

\* the score the handler reports for classifier score s
WithFallback(r, s) == IF s = 0 /\ LowEntropy(r) THEN 450 ELSE s

PipelineStages == <<"fingerprint", "fileType", "exif", "ai">>
Returned(r) == pc[r] = "done"
Failed(r) == metadata[r].failed

Isolated(r) ==
    /\ response[r].body.state = "resolved"
    /\ metadata[r].ran = PipelineStages
    /\ Len(Report(r).errors) = Cardinality(Failed(r))
    /\ Report(r).scores.set

C26_Original ==
    \A r \in Requests :
        Returned(r)
        => /\ Isolated(r)
           /\ "ai" \in Failed(r) => Report(r).scores.forgeryScore = 0
           /\ "exif" \in Failed(r) => Report(r).meta.exif = "null"

\* what holds: the stages are isolated, and the scores of a failed stage
\* are 0.5 (forgeryScore), 0.3 (compressionSuspicion) and 0.4
\* (metadataIntegrity)
C26_StageIsolation ==
    \A r \in Requests :
        Returned(r)
        => /\ Isolated(r)
           /\ "ai" \in Failed(r)
              => /\ Report(r).scores.forgeryScore = 500
                 /\ Report(r).scores.compressionSuspicion = 300
           /\ "exif" \in Failed(r)
              => /\ Report(r).meta.exif = "null"
                 /\ Report(r).scores.metadataIntegrity = 400

\* ------------------------------------------------------------------------
\* C27: in titanium-v3-advanced the missing-origin escalation and the
\* uncertainty floor never both apply to one request; a method of
\* HEURISTIC_UNCERTAINTY comes with a risk of exactly 0.45 and the
\* classification ORGANIC; a method with the MISSING_ORIGIN suffix comes
\* with a risk of at least 0.90 and the classification SYNTHETIC
\* ------------------------------------------------------------------------
Heuristic(r) == Method(r) = <<"HEURISTIC_UNCERTAINTY">>
Class(r) == Body(r).verdict.classification

C27_EscalationOrFloor ==
    \A r \in Requests :
        Reported(r, TITANIUM_V3)
        => /\ Escalated(r) => ~Heuristic(r) /\ HasSuffix(Method(r))
           /\ Heuristic(r) => Risk(r) = 450 /\ Class(r) = "ORGANIC"
           /\ HasSuffix(Method(r)) => Risk(r) >= 900 /\ Class(r) = "SYNTHETIC"

\* one request was floored, the other escalated
C27_Witness ==
    \E r1, r2 \in Requests :
        /\ Reported(r1, TITANIUM_V3) /\ Heuristic(r1) /\ Risk(r1) = 450
        /\ Reported(r2, TITANIUM_V3) /\ HasSuffix(Method(r2))
        /\ Escalated(r2) /\ Risk(r2) >= 900

\* ------------------------------------------------------------------------
\* C28 as stated: with entropy, variance, format, advanced-forensics
\* result and camera flag held fixed, a larger maximum classifier score
\* never gives a lower aiProbability and never turns SYNTHETIC into ORGANIC
\* ------------------------------------------------------------------------
\* two council reports that differ at most in the classifier scores
SameButScores(r1, r2) ==
    /\ CouncilReported(r1) /\ CouncilReported(r2)
    /\ buffer[r1] = buffer[r2]
    /\ hasCamera[r1] = hasCamera[r2]

Monotone(r1, r2) ==
    MaxScore(r1) <= MaxScore(r2)
    => /\ Risk(r1) <= Risk(r2)
       /\ Class(r1) = "SYNTHETIC" => Class(r2) = "SYNTHETIC"

C28_Original ==
    \A r1, r2 \in Requests : SameButScores(r1, r2) => Monotone(r1, r2)

\* what holds: the fusion is monotone wherever the uncertainty floor of
\* titanium-v3-advanced did not fire
C28_MonotoneAboveFloor ==
    \A r1, r2 \in Requests :
        SameButScores(r1, r2) /\ ~Heuristic(r1) /\ ~Heuristic(r2)
        => Monotone(r1, r2)

\* ------------------------------------------------------------------------
\* C29: enterprise-1.0 writes a status and a body at most once per
\* request and exactly once on every path on which the handler returns
\* (OPTIONS, health check, bad method, invalid JSON, missing data and url,
\* failed remote fetch, oversized body, stream error, classifier or
\* backend failure); the outcome of the storage webhook changes neither
\* the status nor the body already written
\* ------------------------------------------------------------------------
Written(r) == results[r]

C29_OneResponse ==
    \A r \in Requests :
        service = ENTERPRISE
        => /\ Len(Written(r)) <= 1
           /\ pc[r] = "done"
              => Len(Written(r)) = 1 /\ Written(r)[1] = response[r]
           /\ pc[r] # "done" => Written(r) = <<>>
           /\ metadata[r].kind = "sink"
              => pc[r] = "done" /\ response[r].status = 200

\* the webhook failed after the report had been written
C29_Witness ==
    \E r \in Requests :
        /\ service = ENTERPRISE /\ metadata[r] = Sink("failed")
        /\ Len(Written(r)) = 1 /\ response[r].status = 200
        /\ response[r].body.ok

\* ------------------------------------------------------------------------
\* C30: in the handlers that check x-worker-secret, a POST is decoded and
\* analysed only if the header is present, non-empty and equal to the
\* configured WORKER_SECRET; in every other case, also when WORKER_SECRET
\* is not configured, the answer is 401 and nothing is decoded, extracted
\* or called; the GET health check is answered without the secret
\* ------------------------------------------------------------------------
ValidSecret(r) ==
    /\ req[r].secret \notin {Unset, ""}
    /\ workerSecret # Unset
    /\ req[r].secret = workerSecret

Untouched(r) ==
    buffer[r] = NoBuffer /\ metadata[r].kind = "none" /\ results[r] = <<>>

C30_SecretGate ==
    \A r \in Requests :
        service \in SecretServices /\ pc[r] # "idle"
        => /\ ~Untouched(r) \/ pc[r] = "analyze" => ValidSecret(r)
           /\ pc[r] = "done" /\ req[r].method = "POST" /\ ~ValidSecret(r)
              => response[r].status = 401 /\ Untouched(r)
           /\ pc[r] = "done" /\ req[r].method = "GET"
              => response[r].status = 200 /\ response[r].body.ok

\* with no WORKER_SECRET configured, a POST with an empty header got 401;
\* the other request, a GET without the header, got the health answer
C30_Witness ==
    \E r1, r2 \in Requests :
        /\ service \in SecretServices /\ workerSecret = Unset
        /\ pc[r1] = "done" /\ req[r1].method = "POST" /\ req[r1].secret = ""
        /\ req[r1].body = "valid" /\ response[r1].status = 401
        /\ pc[r2] = "done" /\ req[r2].method = "GET"
        /\ req[r2].secret = Unset /\ response[r2].status = 200

====
